---- MODULE Spec2Model ----
(***************************************************************************)
(* Model of the fb-to-bq loader: BigQueryClient.insert_records and the     *)
(* single-pass staging/MERGE upsert behind it, of the DataValidator        *)
(* (validate_record, transform_for_bigquery, validate_batch), of the       *)
(* KPIMappingManager and of the pipeline run with its two entry points.    *)
(*                                                                         *)
(* Specifications:                                                         *)
(*   Spec       the upsert loader, one warehouse call per step             *)
(*   SpecRecord validate_record / transform_for_bigquery on one record     *)
(*   SpecBatch  validate_batch on a list of records                        *)
(*   SpecKPI    update_mapping_table / get_mapping_for_account             *)
(*   SpecPipeline  run_full_sync behind the command line and the endpoint  *)
(*   SpecConcurrent  two invocations of the loader on one target table     *)
(*   SpecFetch, SpecFetchLive  the chunk loop of the date-range fetch      *)
(***************************************************************************)
EXTENDS Integers, Sequences, FiniteSets, TLC

VARIABLES
    \* ---- warehouse -------------------------------------------------------
    targetExists,   \* the target table exists in the dataset
    target,         \* rows of the target table: a bag, row -> multiplicity
    staging,        \* the temp table of the current invocation
    \* ---- one invocation of insert_records --------------------------------
    pc,             \* position inside insert_records/_insert_records_using_merge
    table_id,       \* argument: class of the table id
    records,        \* argument: the record list
    batch_size,     \* argument
    i,              \* loop variable of the load loop (0-based offset)
    write_disposition,  \* job_config.write_disposition
    num_rows_affected,  \* merge_job.num_dml_affected_rows
    error,          \* the exception being handled / propagated ("none" if none)
    outcome,        \* "none" | "returned" | "raised"
    result,         \* the dict returned to the caller
    \* ---- observation (history) -------------------------------------------
    log,            \* warehouse calls of the current invocation, in order
    target0,        \* rows of the target when the invocation started
    inserted,       \* rows the MERGE of this invocation inserted
    repeat,         \* this invocation repeats the records of the previous,
                    \* successful, one
    two_phase,      \* outcome of the two-phase mode (process_records) run on
                    \* target0 with the records of this invocation
    \* ---- DataValidator ---------------------------------------------------
    record,         \* input of validate_record / transform_for_bigquery
    vres,           \* result of validate_record: <<is_valid, issues>>
    tres,           \* result of transform_for_bigquery
    batch,          \* input list of validate_batch
    stop_on_first_error,
    bres,           \* result of validate_batch
    rvres,          \* result of validate_record on the transformed record
    ares,           \* result of _validate_and_convert_action_field, per
                    \* nested field of the record
    record0,        \* the content of record when the caller built it
    vres2,          \* result of a second validate_record on record
    \* ---- KPIMappingManager ----------------------------------------------
    mapping_table,  \* rows of rollup_reference.kpi_event_mapping, in order
    mappings_cache, \* self._mappings_cache
    lookup,         \* the last call of get_mapping_for_account and its result
    load_failed,    \* the query of _load_mappings that filled the cache raised
    sync,           \* the last call of update_mapping_table and its outcome
    queries,        \* queries _load_mappings has sent since the cache was
                    \* last reset
    \* ---- FacebookToBigQueryPipeline and its entry points -----------------
    request,        \* entry point, mode, dry-run flag and configuration
    ppc,            \* position inside run_full_sync
    dry_run,        \* the dry_run argument run_full_sync received
    results,        \* the results dict of run_full_sync
    insights,       \* len(insights)
    insights_to_upload, \* len(insights_to_upload)
    writes,         \* tables of the warehouse the run has written to
    delivered,      \* what the entry point got back from the run
    handed,         \* the records argument insert_records received from
                    \* the run
    \* ---- two invocations of _insert_records_using_merge at a time -------
    now,            \* datetime.now(), in microseconds
    cpc,            \* position of each invocation
    temp_table_id,  \* the staging table name of each invocation
    temp_tables,    \* staging tables of the dataset: name -> creator
    touched,        \* calls made on a staging table: who, what, whose table
    \* ---- FacebookClient._get_insights_date_range -------------------------
    fpc,            \* position inside _get_insights_date_range
    chunk_days,     \* argument
    end_date,       \* time_range['until'], in days after time_range['since']
    current_start,  \* loop variable, in days after time_range['since']
    chunk_count     \* chunks fetched so far

loaderVars == <<targetExists, target, staging, pc, table_id, records,
                batch_size, i, write_disposition, num_rows_affected, error,
                outcome, result, log, target0, inserted, repeat, two_phase>>
validatorVars == <<record, vres, tres, batch, stop_on_first_error, bres,
                   rvres, ares, record0, vres2>>
kpiVars == <<mapping_table, mappings_cache, lookup, load_failed, sync,
            queries>>
pipelineVars == <<request, ppc, dry_run, results, insights, insights_to_upload,
                  writes, delivered, handed>>
concurrentVars == <<now, cpc, temp_table_id, temp_tables, touched>>
fetchVars == <<fpc, chunk_days, end_date, current_start, chunk_count>>
nonLoaderVars == <<validatorVars, kpiVars, pipelineVars, concurrentVars,
                   fetchVars>>
nonValidatorVars == <<loaderVars, kpiVars, pipelineVars, concurrentVars,
                      fetchVars>>
nonKpiVars == <<loaderVars, validatorVars, pipelineVars, concurrentVars,
                fetchVars>>
nonPipelineVars == <<loaderVars, validatorVars, kpiVars, concurrentVars,
                     fetchVars>>
nonConcurrentVars == <<loaderVars, validatorVars, kpiVars, pipelineVars,
                       fetchVars>>
nonFetchVars == <<loaderVars, validatorVars, kpiVars, pipelineVars,
                  concurrentVars>>
vars == <<loaderVars, validatorVars, kpiVars, pipelineVars, concurrentVars,
          fetchVars>>

-----------------------------------------------------------------------------
(* Bounds *)
MaxRecords == 2     \* longest record list handed to insert_records
MaxBatchSize == 2   \* largest batch_size

(* Small value universes *)
Accounts == {"act_1", "act_2"}
Ads      == {"ad_1"}
Dates    == {"2024-01-05"}
Spends   == {10, 20}

None == [t |-> "None"]
NotRun == [t |-> "not run"]

-----------------------------------------------------------------------------
(* Generic helpers *)
Min(a, b) == IF a <= b THEN a ELSE b

Range(s) == {s[j] : j \in 1..Len(s)}

SeqsUpTo(S, n) == UNION {[1..m -> S] : m \in 0..n}

RECURSIVE SumOver(_, _)
SumOver(f, S) ==
    IF S = {} THEN 0
    ELSE LET x == CHOOSE y \in S : TRUE IN f[x] + SumOver(f, S \ {x})

-----------------------------------------------------------------------------
(* Rows of the insights table.  account_id, ad_id, date_start are the key  *)
(* columns of the MERGE; spend stands for the non-key columns (every       *)
(* column of the registry that is not a key column is in update_fields).   *)
Rows == [account_id : Accounts, ad_id : Ads, date_start : Dates, spend : Spends]

key_fields(r) == <<r.account_id, r.ad_id, r.date_start>>

EmptyTable == [r \in Rows |-> 0]

-----------------------------------------------------------------------------
(* The MERGE statement built by _build_merge_query, evaluated on a target  *)
(* bag T and the staged rows S (a sequence).                               *)

\* ON T.ad_id = S.ad_id AND T.date_start = S.date_start
\*    AND T.account_id = S.account_id
merge_on_wrong_column(t, s) ==
    /\ t.ad_id = s.ad_id
    /\ t.date_start = s.date_start
    /\ t.account_id = s.ad_id

merge_on(t, s) ==
    /\ t.ad_id = s.ad_id
    /\ t.date_start = s.date_start
    /\ t.account_id = s.account_id

SourceMatches(t, S) == {j \in 1..Len(S) : merge_on(t, S[j])}

TargetMatches(s, T) == {t \in Rows : T[t] > 0 /\ merge_on(t, s)}

\* The statement is rejected when a target row matches more than one
\* source row (the WHEN MATCHED ... UPDATE would be ambiguous).
merge_ambiguous(T, S) ==
    \E t \in Rows : T[t] > 0 /\ Cardinality(SourceMatches(t, S)) > 1

\* WHEN MATCHED THEN UPDATE SET <field> = S.<field> for every non-key field
merge_update(t, S) ==
    IF SourceMatches(t, S) = {} THEN t
    ELSE LET j == CHOOSE k \in SourceMatches(t, S) : TRUE
         IN  [t EXCEPT !.spend = S[j].spend]

\* WHEN NOT MATCHED THEN INSERT (account_id, ad_id, date_start, <fields>)
\*                       VALUES (S.account_id, S.ad_id, S.date_start, ...)
merge_inserts(T, S) == {j \in 1..Len(S) : TargetMatches(S[j], T) = {}}

merge_insert_row(s) ==
    [account_id |-> s.account_id, ad_id |-> s.ad_id,
     date_start |-> s.date_start, spend |-> s.spend]

\* The target after the statement
build_merge_query(T, S) ==
    [r \in Rows |->
        SumOver(T, {t \in Rows : T[t] > 0 /\ merge_update(t, S) = r})
        + Cardinality({j \in merge_inserts(T, S) : merge_insert_row(S[j]) = r})]

merge_matched_rows(T, S) ==
    SumOver(T, {t \in Rows : T[t] > 0 /\ SourceMatches(t, S) # {}})

\* merge_job.num_dml_affected_rows: updated + inserted rows
num_dml_affected_rows(T, S) ==
    merge_matched_rows(T, S) + Cardinality(merge_inserts(T, S))

-----------------------------------------------------------------------------
(* insert_records *)

TableIds == {"meta_ads", "meta_ads_test", "ad_insights"}

\* 'meta_ads' in table_id
is_meta_ads(tbl) == tbl \in {"meta_ads", "meta_ads_test"}

\* The class attributes of SchemaRegistry; ensure_meta_ads_table_exists
\* evaluates SchemaRegistry.to_bigquery_schema('insights').
SchemaRegistryAttributes ==
    {"INSIGHTS_SCHEMA", "KPI_MAPPING_SCHEMA", "get_schema", "get_schema_dict",
     "get_field_lists"}

\* ensure_meta_ads_table_exists: the attribute lookup raises AttributeError
\* before create_table_if_not_exists is called.
ensure_meta_ads_table_exists ==
    IF "to_bigquery_schema" \in SchemaRegistryAttributes
    THEN "create_table_if_not_exists" ELSE "AttributeError"

NoStaging == [exists |-> FALSE, rows |-> <<>>]

Call(op, ok) == [op |-> op, ok |-> ok]

SameRecordSet(a, b) == Len(a) = Len(b) /\ Range(a) = Range(b)

distinct_keys(recs) ==
    \A j, k \in 1..Len(recs) : j # k => key_fields(recs[j]) # key_fields(recs[k])

\* "if not records"
has_no_records_unchecked(recs) == FALSE

has_no_records(recs) == recs = <<>>

\* insert_records, up to the call of _insert_records_using_merge.  rep tells
\* whether the caller passes the records of the call that just succeeded.
begin_insert_records(recs, b, rep) ==
    /\ records' = recs
    /\ batch_size' = b
    /\ log' = <<>>
    /\ target0' = target
    /\ inserted' = 0
    /\ num_rows_affected' = 0
    /\ i' = 0
    /\ write_disposition' = "none"
    /\ repeat' = rep
    /\ staging' = NoStaging      \* temp_table_ref names a table not created yet
    /\ IF has_no_records(recs)
       THEN /\ outcome' = "returned"
            /\ result' = [processed |-> 0, status |-> "no_records"]
            /\ error' = "none"
            /\ pc' = "done"
       ELSE IF is_meta_ads(table_id)
                /\ ensure_meta_ads_table_exists = "AttributeError"
       THEN /\ outcome' = "raised"
            /\ result' = None
            /\ error' = "AttributeError"
            /\ pc' = "done"
       ELSE /\ outcome' = "none"
            /\ result' = None
            /\ error' = "none"
            /\ pc' = "get_table"
    /\ UNCHANGED <<targetExists, target, table_id>>
    /\ two_phase' = NotRun
    /\ UNCHANGED nonLoaderVars

\* A call of insert_records
insert_records(recs, b) ==
    /\ pc = "idle"
    /\ begin_insert_records(recs, b, FALSE)

\* The caller runs insert_records again with the records and batch size of
\* the call that has just returned successfully
insert_records_again ==
    /\ pc = "done"
    /\ outcome = "returned"
    /\ result.status = "success"
    /\ ~repeat
    /\ begin_insert_records(records, batch_size, TRUE)

(* _insert_records_using_merge, one warehouse call per action *)

\* Step 1a: self.client.get_table(target_table_ref)
get_table ==
    /\ pc = "get_table"
    /\ \E ok \in {b \in BOOLEAN : b => targetExists} :
        /\ log' = Append(log, Call("get_table", ok))
        /\ IF ok THEN pc' = "create_table" /\ error' = error
                 ELSE pc' = "except" /\ error' = "get_table"
    /\ UNCHANGED <<targetExists, target, staging, table_id, records,
                   batch_size, i, write_disposition, num_rows_affected,
                   outcome, result, target0, inserted, repeat>>
    /\ UNCHANGED <<two_phase, nonLoaderVars>>

\* Step 1b: self.client.create_table(temp_table); job_config starts in
\* WRITE_TRUNCATE
create_table ==
    /\ pc = "create_table"
    /\ \E ok \in BOOLEAN :
        /\ log' = Append(log, Call("create_table", ok))
        /\ IF ok
           THEN /\ staging' = [exists |-> TRUE, rows |-> <<>>]
                /\ write_disposition' = "WRITE_TRUNCATE"
                /\ pc' = IF 0 < Len(records) THEN "load" ELSE "merge"
                /\ error' = error
           ELSE /\ staging' = staging
                /\ write_disposition' = write_disposition
                /\ pc' = "except"
                /\ error' = "create_table"
    /\ i' = 0
    /\ UNCHANGED <<targetExists, target, table_id, records, batch_size,
                   num_rows_affected, outcome, result, target0, inserted,
                   repeat>>
    /\ UNCHANGED <<two_phase, nonLoaderVars>>

\* slices that start one record early after the first
batch_slice_overlapping(recs, off, b) ==
    SubSeq(recs, IF off = 0 THEN 1 ELSE off, Min(off + b, Len(recs)))

\* records[i:i + batch_size]
batch_slice(recs, off, b) == SubSeq(recs, off + 1, Min(off + b, Len(recs)))

\* What one load job leaves in the destination table
load_table_from_file(rows, chunk, disposition) ==
    IF disposition = "WRITE_TRUNCATE" THEN chunk ELSE rows \o chunk

\* "After first batch, change to append mode"
after_first_batch_unchanged(disposition) == disposition

after_first_batch(disposition) == "WRITE_APPEND"

\* a load loop that merges every chunk into the target as soon as it is
\* loaded
load_batch_merging_each_chunk ==
    /\ pc = "load"
    /\ \E ok \in BOOLEAN :
        /\ log' = Append(log, Call(write_disposition, ok))
        /\ IF ok
           THEN /\ staging' = [staging EXCEPT !.rows =
                      load_table_from_file(staging.rows,
                          batch_slice(records, i, batch_size),
                          write_disposition)]
                /\ target' = build_merge_query(target,
                                  batch_slice(records, i, batch_size))
                /\ write_disposition' = after_first_batch(write_disposition)
                /\ i' = i + batch_size
                /\ pc' = IF i + batch_size < Len(records) THEN "load" ELSE "merge"
                /\ error' = error
           ELSE /\ UNCHANGED <<staging, target, write_disposition, i>>
                /\ pc' = "except"
                /\ error' = "load"
    /\ UNCHANGED <<targetExists, table_id, records, batch_size,
                   num_rows_affected, outcome, result, target0, inserted,
                   repeat>>
    /\ UNCHANGED <<two_phase, nonLoaderVars>>

\* Step 2: one iteration of "for i in range(0, len(records), batch_size)"
load_batch ==
    /\ pc = "load"
    /\ \E ok \in BOOLEAN :
        /\ log' = Append(log, Call(write_disposition, ok))
        /\ IF ok
           THEN /\ staging' = [staging EXCEPT !.rows =
                      load_table_from_file(staging.rows,
                          batch_slice(records, i, batch_size),
                          write_disposition)]
                /\ write_disposition' = after_first_batch(write_disposition)
                /\ i' = i + batch_size
                /\ pc' = IF i + batch_size < Len(records) THEN "load" ELSE "merge"
                /\ error' = error
           ELSE /\ UNCHANGED <<staging, write_disposition, i>>
                /\ pc' = "except"
                /\ error' = "load"
    /\ UNCHANGED <<targetExists, target, table_id, records, batch_size,
                   num_rows_affected, outcome, result, target0, inserted,
                   repeat>>
    /\ UNCHANGED <<two_phase, nonLoaderVars>>

\* Step 3: the MERGE statement (query + result)
execute_merge ==
    /\ pc = "merge"
    /\ \E ok \in {b \in BOOLEAN : b => ~merge_ambiguous(target, staging.rows)} :
        /\ log' = Append(log, Call("MERGE", ok))
        /\ IF ok
           THEN /\ target' = build_merge_query(target, staging.rows)
                /\ num_rows_affected' = num_dml_affected_rows(target, staging.rows)
                /\ inserted' = Cardinality(merge_inserts(target, staging.rows))
                /\ pc' = "drop"
                /\ error' = error
           ELSE /\ UNCHANGED <<target, num_rows_affected, inserted>>
                /\ pc' = "except"
                /\ error' = "merge"
    /\ UNCHANGED <<targetExists, staging, table_id, records, batch_size, i,
                   write_disposition, outcome, result, target0, repeat>>
    /\ UNCHANGED <<two_phase, nonLoaderVars>>

\* delete_table(temp_table_ref): succeeds only on a table that exists
delete_table_ok == {b \in BOOLEAN : b => staging.exists}

\* Step 4: drop the temp table and return
drop_temp_table ==
    /\ pc = "drop"
    /\ \E ok \in delete_table_ok :
        /\ log' = Append(log, Call("delete_table", ok))
        /\ IF ok
           THEN /\ staging' = NoStaging
                /\ outcome' = "returned"
                /\ result' = [processed |-> Len(records),
                              rows_affected |-> num_rows_affected,
                              status |-> "success"]
                /\ pc' = "done"
                /\ error' = error
           ELSE /\ UNCHANGED <<staging, outcome, result>>
                /\ pc' = "except"
                /\ error' = "delete_table"
    /\ UNCHANGED <<targetExists, target, table_id, records, batch_size, i,
                   write_disposition, num_rows_affected, target0, inserted,
                   repeat>>
    /\ UNCHANGED <<two_phase, nonLoaderVars>>

cleanup_on_error_without_delete ==
    /\ pc = "except"
    /\ outcome' = "raised"
    /\ pc' = "done"
    /\ UNCHANGED <<targetExists, target, staging, table_id, records,
                   batch_size, i, write_disposition, num_rows_affected, error,
                   result, log, target0, inserted, repeat>>
    /\ UNCHANGED <<two_phase, nonLoaderVars>>

\* The handler with a cleanup whose failure is not swallowed: the exception
\* of the delete replaces the one being handled
cleanup_on_error_raising_delete ==
    /\ pc = "except"
    /\ \E ok \in delete_table_ok :
        /\ log' = Append(log, Call("delete_table", ok))
        /\ staging' = IF ok THEN NoStaging ELSE staging
        /\ error' = IF ok THEN error ELSE "cleanup"
    /\ outcome' = "raised"
    /\ pc' = "done"
    /\ UNCHANGED <<targetExists, target, table_id, records, batch_size, i,
                   write_disposition, num_rows_affected, result,
                   target0, inserted, repeat>>
    /\ UNCHANGED <<two_phase, nonLoaderVars>>

\* except Exception: try delete_table, swallow its failure, re-raise
cleanup_on_error ==
    /\ pc = "except"
    /\ \E ok \in delete_table_ok :
        /\ log' = Append(log, Call("delete_table", ok))
        /\ staging' = IF ok THEN NoStaging ELSE staging
    /\ outcome' = "raised"
    /\ pc' = "done"
    /\ UNCHANGED <<targetExists, target, table_id, records, batch_size, i,
                   write_disposition, num_rows_affected, error, result,
                   target0, inserted, repeat>>
    /\ UNCHANGED <<two_phase, nonLoaderVars>>

\* insert_records hands the result (or the exception) to its caller; the
\* locals of the invocation are gone
return_to_caller ==
    /\ pc = "done"
    /\ pc' = "idle"
    /\ staging' = NoStaging
    /\ records' = <<>>
    /\ batch_size' = 1
    /\ i' = 0
    /\ write_disposition' = "none"
    /\ num_rows_affected' = 0
    /\ error' = "none"
    /\ outcome' = "none"
    /\ result' = None
    /\ log' = <<>>
    /\ target0' = EmptyTable
    /\ inserted' = 0
    /\ repeat' = FALSE
    /\ UNCHANGED <<targetExists, target, table_id>>
    /\ two_phase' = NotRun
    /\ UNCHANGED nonLoaderVars

-----------------------------------------------------------------------------
-----------------------------------------------------------------------------
(* The two-phase mode: process_records of bigquery.py (and the methods     *)
(* _separate_records, _process_updates, _process_inserts it left in        *)
(* BigQueryClient).  It is evaluated on the rows the target held when the  *)
(* single-pass invocation started, with the same records and batch size.   *)

\* The insights are fetched with time_increment 1: a row covers one day
date_stop(r) == r.date_start

\* (record['date_start'], record['date_stop'], record['ad_id'])
separate_key(r) == <<r.date_start, date_stop(r), r.ad_id>>

\* SELECT date_start, date_stop, ad_id ... WHERE date_start IN UNNEST(...)
\*   AND date_stop IN UNNEST(...) AND ad_id IN UNNEST(...)
get_existing_records(T, recs) ==
    {separate_key(t) : t \in {r \in Rows :
        /\ T[r] > 0
        /\ r.date_start \in {recs[j].date_start : j \in 1..Len(recs)}
        /\ date_stop(r) \in {date_stop(recs[j]) : j \in 1..Len(recs)}
        /\ r.ad_id \in {recs[j].ad_id : j \in 1..Len(recs)}}}

IsUpdate(existing_keys, r) == separate_key(r) \in existing_keys

separate_records(recs, existing_keys) ==
    [updates |-> SelectSeq(recs, LAMBDA r : IsUpdate(existing_keys, r)),
     inserts |-> SelectSeq(recs, LAMBDA r : ~IsUpdate(existing_keys, r))]

\* ON T.date_start = S.date_start AND T.date_stop = S.date_stop
\*    AND T.ad_id = S.ad_id
update_merge_on(t, s) ==
    /\ t.date_start = s.date_start
    /\ date_stop(t) = date_stop(s)
    /\ t.ad_id = s.ad_id

UpdateMatches(t, S) == {j \in 1..Len(S) : update_merge_on(t, S[j])}

update_merge_ambiguous(T, S) ==
    \E t \in Rows : T[t] > 0 /\ Cardinality(UpdateMatches(t, S)) > 1

\* get_table_schema: every column but date_start, date_stop, ad_id is
\* updatable, account_id among them
update_clause(t, S) ==
    IF UpdateMatches(t, S) = {} THEN t
    ELSE LET j == CHOOSE k \in UpdateMatches(t, S) : TRUE
         IN  [t EXCEPT !.account_id = S[j].account_id, !.spend = S[j].spend]

\* MERGE ... WHEN MATCHED THEN UPDATE SET ... (no insert branch)
update_merge_query(T, S) ==
    [r \in Rows |->
        SumOver(T, {t \in Rows : T[t] > 0 /\ update_clause(t, S) = r})]

\* "for i in range(0, len(updates), batch_size)": a statement that fails
\* ends the run, the batches merged before it stay
RECURSIVE process_updates(_, _, _, _)
process_updates(T, updates, b, off) ==
    IF off >= Len(updates) THEN [raised |-> FALSE, table |-> T]
    ELSE LET chunk == batch_slice(updates, off, b)
         IN  IF update_merge_ambiguous(T, chunk)
             THEN [raised |-> TRUE, table |-> T]
             ELSE process_updates(update_merge_query(T, chunk), updates, b,
                                  off + b)

\* the insert batches are loaded into the target with WRITE_APPEND
process_inserts(T, inserts) ==
    [r \in Rows |-> T[r] + Cardinality({j \in 1..Len(inserts) : inserts[j] = r})]

\* available: the warehouse answers the calls of the run; if it does not,
\* the first call (get_table_schema) raises
process_records_on(T, recs, b, available) ==
    IF ~available THEN [raised |-> TRUE, table |-> T]
    ELSE LET parts == separate_records(recs, get_existing_records(T, recs))
             updated == process_updates(T, parts.updates, b, 0)
         IN  IF updated.raised THEN updated
             ELSE [raised |-> FALSE,
                   table |-> process_inserts(updated.table, parts.inserts)]

process_records ==
    /\ pc = "done"
    /\ outcome = "returned"
    /\ result.status = "success"
    /\ two_phase = NotRun
    /\ \E available \in BOOLEAN :
          two_phase' = process_records_on(target0, records, batch_size, available)
    /\ UNCHANGED <<targetExists, target, staging, pc, table_id, records,
                   batch_size, i, write_disposition, num_rows_affected, error,
                   outcome, result, log, target0, inserted, repeat>>
    /\ UNCHANGED nonLoaderVars

ValidatorIdle ==
    /\ record = NotRun
    /\ vres = NotRun
    /\ tres = NotRun
    /\ batch = <<>>
    /\ stop_on_first_error = FALSE
    /\ bres = NotRun
    /\ rvres = NotRun
    /\ ares = NotRun
    /\ record0 = NotRun
    /\ vres2 = NotRun

\* self._mappings_cache = None
NoCache == [loaded |-> FALSE]

KpiIdle ==
    /\ mapping_table = <<>>
    /\ mappings_cache = NoCache
    /\ lookup = NotRun
    /\ load_failed = FALSE
    /\ sync = NotRun
    /\ queries = 0

PipelineIdle ==
    /\ request = NotRun
    /\ ppc = "idle"
    /\ dry_run = FALSE
    /\ results = NotRun
    /\ insights = 0
    /\ insights_to_upload = 0
    /\ writes = {}
    /\ delivered = NotRun
    /\ handed = NotRun

Invocations == {"A", "B"}

ConcurrentIdle ==
    /\ now = 0
    /\ cpc = [w \in Invocations |-> "idle"]
    /\ temp_table_id = [w \in Invocations |-> NotRun]
    /\ temp_tables = {}
    /\ touched = {}

FetchIdle ==
    /\ fpc = "idle"
    /\ chunk_days = 1
    /\ end_date = 0
    /\ current_start = 0
    /\ chunk_count = 0

LoaderIdle ==
    /\ targetExists = TRUE
    /\ target = EmptyTable
    /\ staging = NoStaging
    /\ pc = "idle"
    /\ table_id = "ad_insights"
    /\ records = <<>>
    /\ batch_size = 1
    /\ i = 0
    /\ write_disposition = "none"
    /\ num_rows_affected = 0
    /\ error = "none"
    /\ outcome = "none"
    /\ result = None
    /\ log = <<>>
    /\ target0 = EmptyTable
    /\ inserted = 0
    /\ repeat = FALSE
    /\ two_phase = NotRun

Init ==
    /\ targetExists \in BOOLEAN
    /\ target = EmptyTable
    /\ staging = NoStaging
    /\ pc = "idle"
    /\ table_id \in TableIds
    /\ records = <<>>
    /\ batch_size = 1
    /\ i = 0
    /\ write_disposition = "none"
    /\ num_rows_affected = 0
    /\ error = "none"
    /\ outcome = "none"
    /\ result = None
    /\ log = <<>>
    /\ target0 = EmptyTable
    /\ inserted = 0
    /\ repeat = FALSE
    /\ two_phase = NotRun
    /\ ValidatorIdle
    /\ KpiIdle
    /\ PipelineIdle
    /\ ConcurrentIdle
    /\ FetchIdle

Next ==
    \/ \E recs \in SeqsUpTo(Rows, MaxRecords), b \in 1..MaxBatchSize :
          insert_records(recs, b)
    \/ insert_records_again
    \/ get_table
    \/ create_table
    \/ load_batch
    \/ execute_merge
    \/ drop_temp_table
    \/ cleanup_on_error
    \/ process_records
    \/ return_to_caller

Spec == Init /\ [][Next]_vars

-----------------------------------------------------------------------------
(* Properties of the upsert loader (checked under Spec) *)

Succeeded == pc = "done" /\ outcome = "returned" /\ result.status = "success"

RowsWithKey(T, k) == SumOver(T, {r \in Rows : key_fields(r) = k})

OneRowPerKey(T) == \A r \in Rows : RowsWithKey(T, key_fields(r)) <= 1

RecordKeys(recs) == {key_fields(recs[j]) : j \in 1..Len(recs)}

UpsertPostcondition ==
    /\ \A j \in 1..Len(records) :
          /\ RowsWithKey(target, key_fields(records[j])) = 1
          /\ target[records[j]] = 1
    /\ \A r \in Rows :
          key_fields(r) \notin RecordKeys(records) => target[r] = target0[r]

\* C1: after a successful upsert of records with pairwise distinct identity
\* keys, the target holds exactly one row per record key, equal to the
\* record, and every row with another key is unchanged.
C1_UpsertPostcondition ==
    (Succeeded /\ distinct_keys(records)) => UpsertPostcondition

\* Supporting fact for C1: the postcondition holds whenever the target held
\* at most one row per key when the upsert started.
UpsertOnKeyedTarget ==
    (Succeeded /\ distinct_keys(records) /\ OneRowPerKey(target0))
        => UpsertPostcondition

UpsertOnKeyedTargetWitness ==
    /\ Succeeded /\ distinct_keys(records) /\ OneRowPerKey(target0)
    /\ Len(records) = 2
    /\ \E j \in 1..2 : RowsWithKey(target0, key_fields(records[j])) = 1
                       /\ target0[records[j]] = 0

\* C2: starting from a target with at most one row per identity key, the
\* target holds at most one row per (account_id, ad_id, date_start) after
\* every successful upsert, also for record lists that repeat a key.
C2_OneRowPerKey == Succeeded => OneRowPerKey(target)

CeilDiv(n, b) == (n + b - 1) \div b

AppendLoads(k) == [j \in 1..k |-> Call("WRITE_APPEND", TRUE)]

\* C3: a successful upsert of n >= 1 records performs one staging table
\* creation, then ceil(n / batch_size) loads (the first WRITE_TRUNCATE, the
\* others WRITE_APPEND), then one MERGE, then the deletion of the staging
\* table, in this order, and returns processed = n.
C3_CallOrder ==
    (Succeeded /\ Len(records) >= 1) =>
        /\ log = <<Call("get_table", TRUE), Call("create_table", TRUE),
                   Call("WRITE_TRUNCATE", TRUE)>>
                 \o AppendLoads(CeilDiv(Len(records), batch_size) - 1)
                 \o <<Call("MERGE", TRUE), Call("delete_table", TRUE)>>
        /\ result.processed = Len(records)

C3_Witness ==
    Succeeded /\ Len(records) = MaxRecords /\ batch_size = 1

\* C4: an invocation that created its staging table issues a delete for it
\* before it ends, on the success path and on every failure path; if a
\* delete call succeeded, the staging table does not exist afterwards.
C4_StagingDropped ==
    (pc = "done") =>
        \A j \in 1..Len(log) :
            log[j] = Call("create_table", TRUE) =>
                /\ \E k \in (j + 1)..Len(log) : log[k].op = "delete_table"
                /\ (\E k \in (j + 1)..Len(log) : log[k] = Call("delete_table", TRUE))
                       => ~staging.exists

C4_Witness ==
    /\ pc = "done" /\ outcome = "raised" /\ error = "load"
    /\ Call("create_table", TRUE) \in Range(log)
    /\ Call("WRITE_TRUNCATE", TRUE) \in Range(log)
    /\ Call("delete_table", TRUE) \in Range(log)
    /\ ~staging.exists

\* C5: running the upsert a second time with the same records (distinct
\* keys) inserts no row and leaves the target as the first call left it.
C5_Idempotent ==
    (Succeeded /\ repeat /\ distinct_keys(records)) =>
        /\ inserted = 0
        /\ target = target0

C5_Witness ==
    Succeeded /\ repeat /\ distinct_keys(records) /\ Len(records) = 2

NoWarehouseOperation ==
    /\ log = <<>>
    /\ target = target0
    /\ ~staging.exists

\* C6 (as stated): insert_records with an empty list performs no warehouse
\* operation and returns a success result with processed = 0.
C6_EmptyIsSuccess ==
    (pc = "done" /\ records = <<>>) =>
        /\ NoWarehouseOperation
        /\ outcome = "returned"
        /\ result.processed = 0
        /\ result.status = "success"

\* C6 (amended): insert_records with an empty list performs no warehouse
\* operation and returns, without raising, the result
\* {processed: 0, status: 'no_records'}.
C6_EmptyIsNoRecords ==
    (pc = "done" /\ records = <<>>) =>
        /\ NoWarehouseOperation
        /\ outcome = "returned"
        /\ result = [processed |-> 0, status |-> "no_records"]

C6_Witness == pc = "done" /\ records = <<>> /\ outcome = "returned"

\* C7: on an insights-class table (id containing 'meta_ads') insert_records
\* first makes sure the target exists (the first warehouse call looks the
\* target up) and the upsert then proceeds; on any other table a missing
\* target makes the upsert fail and the target is not created.
C7_EnsureTargetFirst ==
    (pc = "done" /\ records # <<>>) =>
        /\ is_meta_ads(table_id) =>
              /\ log # <<>>
              /\ log[1].op = "get_table"
        /\ (~is_meta_ads(table_id) /\ ~targetExists) => outcome = "raised"

-----------------------------------------------------------------------------
(* DataValidator: Python values.                                           *)
(* A value is a record tagged by t: None, str (a sequence of characters),  *)
(* int, float (n / 10^d, d minimal), list, dict.  A dict has one entry per *)
(* key the model knows; Absent marks a key the dict does not hold.         *)

Absent == [t |-> "absent"]
StrV(s) == [t |-> "str", s |-> s]
IntV(n) == [t |-> "int", n |-> n]
FloatV(n, d) == [t |-> "float", n |-> n, d |-> d]
ListV(items) == [t |-> "list", items |-> items]
ActionV(action_type, value) ==
    [t |-> "dict", action_type |-> action_type, value |-> value]

DigitSeq == <<"0", "1", "2", "3", "4", "5", "6", "7", "8", "9">>
Digits == Range(DigitSeq)
DigitVal(c) == (CHOOSE k \in 1..10 : DigitSeq[k] = c) - 1

IsDigits(s) == Len(s) > 0 /\ \A k \in 1..Len(s) : s[k] \in Digits

RECURSIVE NatOf(_)
NatOf(s) ==
    IF s = <<>> THEN 0
    ELSE NatOf(SubSeq(s, 1, Len(s) - 1)) * 10 + DigitVal(s[Len(s)])

RECURSIVE NatStr(_)
NatStr(n) ==
    IF n < 10 THEN <<DigitSeq[n + 1]>>
    ELSE NatStr(n \div 10) \o <<DigitSeq[(n % 10) + 1]>>

RECURSIVE Pow10(_)
Pow10(d) == IF d = 0 THEN 1 ELSE 10 * Pow10(d - 1)

RECURSIVE ZeroPad(_, _)
ZeroPad(s, width) == IF Len(s) >= width THEN s ELSE ZeroPad(<<"0">> \o s, width)

Abs(n) == IF n < 0 THEN -n ELSE n
Sign(n) == IF n < 0 THEN <<"-">> ELSE <<>>

\* the float n / 10^d with the trailing zeros of the fraction removed
RECURSIVE NormFloat(_, _)
NormFloat(n, d) ==
    IF d > 0 /\ n % 10 = 0 THEN NormFloat(n \div 10, d - 1) ELSE FloatV(n, d)

\* str(value) for None, str, int and float values
str(v) ==
    CASE v.t = "None"  -> <<"N", "o", "n", "e">>
      [] v.t = "str"   -> v.s
      [] v.t = "int"   -> Sign(v.n) \o NatStr(Abs(v.n))
      [] v.t = "float" ->
            Sign(v.n) \o NatStr(Abs(v.n) \div Pow10(v.d)) \o <<".">>
            \o (IF v.d = 0 THEN <<"0">>
                ELSE ZeroPad(NatStr(Abs(v.n) % Pow10(v.d)), v.d))
      [] OTHER         -> <<"[", "]">>

ValueError == [ok |-> FALSE]
Ok(v) == [ok |-> TRUE, v |-> v]

Unsigned(s) == IF s # <<>> /\ s[1] \in {"-", "+"} THEN Tail(s) ELSE s
Signed(s, n) == IF s # <<>> /\ s[1] = "-" THEN -n ELSE n

int_of_str_truncating(s) ==
    LET u == Unsigned(s)
        dots == {k \in 1..Len(u) : u[k] = "."}
        ip == IF dots = {} THEN u
              ELSE SubSeq(u, 1, (CHOOSE k \in dots : TRUE) - 1)
    IN  IF IsDigits(ip) THEN [ok |-> TRUE, v |-> IntV(Signed(s, NatOf(ip)))]
        ELSE [ok |-> FALSE]

\* int(s) for a string s: an optional sign and decimal digits (the strings
\* of the model hold no blanks and no underscores)
int_of_str(s) ==
    IF IsDigits(Unsigned(s)) THEN Ok(IntV(Signed(s, NatOf(Unsigned(s)))))
    ELSE ValueError

\* float(s) for a string s: an optional sign, digits with at most one point
\* and at least one digit (the strings of the model hold no exponent)
float_of_str(s) ==
    LET u == Unsigned(s)
        dots == {k \in 1..Len(u) : u[k] = "."}
    IN  IF dots = {}
        THEN IF IsDigits(u) THEN Ok(FloatV(Signed(s, NatOf(u)), 0)) ELSE ValueError
        ELSE IF Cardinality(dots) > 1 THEN ValueError
        ELSE LET p == CHOOSE k \in dots : TRUE
                 ip == SubSeq(u, 1, p - 1)
                 fp == SubSeq(u, p + 1, Len(u))
             IN  IF /\ ip \o fp # <<>>
                    /\ \A k \in 1..Len(ip \o fp) : (ip \o fp)[k] \in Digits
                 THEN Ok(NormFloat(Signed(s, NatOf(ip \o fp)), Len(fp)))
                 ELSE ValueError

IsLeap(y) == (y % 4 = 0 /\ y % 100 # 0) \/ y % 400 = 0

DaysInMonth(y, m) ==
    IF m = 2 THEN (IF IsLeap(y) THEN 29 ELSE 28)
    ELSE IF m \in {4, 6, 9, 11} THEN 30 ELSE 31

\* datetime.datetime.strptime(s, '%Y-%m-%d') succeeds: four digits, '-', a
\* month of one or two digits, '-', a day of one or two digits, and the
\* date exists
strptime_ok(s) ==
    LET dashes == {k \in 1..Len(s) : s[k] = "-"}
    IN  /\ Cardinality(dashes) = 2
        /\ 5 \in dashes
        /\ LET q == CHOOSE k \in dashes : k # 5
               Y == SubSeq(s, 1, 4)
               M == SubSeq(s, 6, q - 1)
               D == SubSeq(s, q + 1, Len(s))
           IN  /\ q > 5
               /\ IsDigits(Y) /\ NatOf(Y) >= 1
               /\ IsDigits(M) /\ Len(M) <= 2 /\ NatOf(M) \in 1..12
               /\ IsDigits(D) /\ Len(D) <= 2 /\ NatOf(D) >= 1
               /\ NatOf(D) <= DaysInMonth(NatOf(Y), NatOf(M))

-----------------------------------------------------------------------------
(* DataValidator: schema and field lists *)

DictV(d) == [t |-> "dict", d |-> d]

\* "key in dict"
Has(dict, key) == dict.d[key] # Absent

\* bool(value)
truthy(v) ==
    CASE v.t = "None"  -> FALSE
      [] v.t = "str"   -> v.s # <<>>
      [] v.t = "int"   -> v.n # 0
      [] v.t = "float" -> v.n # 0
      [] v.t = "list"  -> v.items # <<>>
      [] v.t = "dict"  -> \E k \in DOMAIN v.d : v.d[k] # Absent
      [] OTHER         -> FALSE

FieldSchema(type, nested) == [type |-> type, nullable |-> TRUE, nested |-> nested]

\* The fields of INSIGHTS_SCHEMA the model keeps (one of each kind and two
\* nested ones), in the order of the dictionary
SchemaFields ==
    <<"spend", "impressions", "date_start", "ad_id", "website_ctr", "actions">>

Schema ==
    [spend       |-> FieldSchema("float", FALSE),
     impressions |-> FieldSchema("int", FALSE),
     date_start  |-> FieldSchema("date", FALSE),
     ad_id       |-> FieldSchema("str", FALSE),
     website_ctr |-> FieldSchema("float", TRUE),
     actions     |-> FieldSchema("int", TRUE)]

FieldsOf(type, nested) ==
    SelectSeq(SchemaFields,
              LAMBDA f : Schema[f].type = type /\ Schema[f].nested = nested)

\* _build_field_lists
float_fields == FieldsOf("float", FALSE)
int_fields == FieldsOf("int", FALSE)
date_fields == FieldsOf("date", FALSE)
action_fields == SelectSeq(SchemaFields, LAMBDA f : Schema[f].nested)
regular_fields == SelectSeq(SchemaFields, LAMBDA f : ~Schema[f].nested)

\* The conversion of a present, non-null value to a semantic type:
\* float(str(v)), int(str(v)), or the strptime check that keeps str(v)
convert_value(type, v) ==
    CASE type = "float" -> float_of_str(str(v))
      [] type = "int"   -> int_of_str(str(v))
      [] type = "date"  -> IF strptime_ok(str(v)) THEN Ok(StrV(str(v)))
                           ELSE ValueError
      [] OTHER          -> Ok(v)

\* all(k in action for k in ['action_type', 'value'])
has_required_keys(action) == Has(action, "action_type") /\ Has(action, "value")

-----------------------------------------------------------------------------
(* DataValidator.validate_record *)

Issue(kind, field, idx, value) ==
    [kind |-> kind, field |-> field, idx |-> idx, value |-> value]

RECURSIVE Concat(_)
Concat(ss) == IF ss = <<>> THEN <<>> ELSE Head(ss) \o Concat(Tail(ss))

\* the try/except ValueError around the parse of one regular field
regular_field_issues(rec, f) ==
    IF Has(rec, f) /\ rec.d[f] # None /\ ~convert_value(Schema[f].type, rec.d[f]).ok
    THEN <<Issue("Invalid value", f, 0, rec.d[f])>>
    ELSE <<>>

action_item_issues(f, idx, action) ==
    IF action.t # "dict"
    THEN <<Issue("Item is not a dictionary", f, idx, action)>>
    ELSE IF ~has_required_keys(action)
    THEN <<Issue("Item missing required keys", f, idx, action)>>
    ELSE <<>>

action_field_issues_first_only(rec, f) ==
    IF Has(rec, f) /\ truthy(rec.d[f])
    THEN IF rec.d[f].t # "list"
         THEN <<Issue("is not a list", f, 0, rec.d[f])>>
         ELSE LET all == Concat([k \in 1..Len(rec.d[f].items) |->
                                   action_item_issues(f, k - 1, rec.d[f].items[k])])
              IN  IF all = <<>> THEN <<>> ELSE <<Head(all)>>
    ELSE <<>>

action_field_issues(rec, f) ==
    IF Has(rec, f) /\ truthy(rec.d[f])
    THEN IF rec.d[f].t # "list"
         THEN <<Issue("is not a list", f, 0, rec.d[f])>>
         ELSE Concat([k \in 1..Len(rec.d[f].items) |->
                          action_item_issues(f, k - 1, rec.d[f].items[k])])
    ELSE <<>>

validate_record(rec) ==
    LET issues ==
            Concat([k \in 1..Len(regular_fields) |->
                        regular_field_issues(rec, regular_fields[k])])
            \o Concat([k \in 1..Len(action_fields) |->
                        action_field_issues(rec, action_fields[k])])
    IN  [is_valid |-> issues = <<>>, issues |-> issues]

-----------------------------------------------------------------------------
(* DataValidator.transform_for_bigquery *)

convert_action_without_value(action, info) ==
    IF action.t # "dict" THEN ValueError
    ELSE IF ~has_required_keys(action) THEN ValueError
    ELSE Ok(DictV([action_type |-> StrV(str(action.d.action_type)),
                   value |-> Absent]))

\* one element of a nested field
convert_action(action, info) ==
    IF action.t # "dict" THEN ValueError
    ELSE IF ~has_required_keys(action) THEN ValueError
    ELSE LET value == action.d.value
             converted == IF value = None /\ info.nullable THEN Ok(None)
                          ELSE convert_value(info.type, value)
         IN  IF converted.ok
             THEN Ok(DictV([action_type |-> StrV(str(action.d.action_type)),
                            value |-> converted.v]))
             ELSE ValueError

RECURSIVE convert_actions_reversed(_, _)
convert_actions_reversed(items, info) ==
    IF items = <<>> THEN Ok(<<>>)
    ELSE LET first == convert_action(Head(items), info)
         IN  IF ~first.ok THEN ValueError
             ELSE LET rest == convert_actions_reversed(Tail(items), info)
                  IN  IF rest.ok THEN Ok(rest.v \o <<first.v>>) ELSE ValueError

RECURSIVE convert_actions(_, _)
convert_actions(items, info) ==
    IF items = <<>> THEN Ok(<<>>)
    ELSE LET first == convert_action(Head(items), info)
         IN  IF ~first.ok THEN ValueError
             ELSE LET rest == convert_actions(Tail(items), info)
                  IN  IF rest.ok THEN Ok(<<first.v>> \o rest.v) ELSE ValueError

\* _validate_and_convert_action_field
validate_and_convert_action_field(actions, info) ==
    IF ~truthy(actions) THEN Ok(None)
    ELSE IF actions.t # "list" THEN ValueError
    ELSE LET converted == convert_actions(actions.items, info)
         IN  IF converted.ok THEN Ok(ListV(converted.v)) ELSE ValueError

convert_field_keeping_failures(f, v) ==
    LET r == IF Schema[f].nested
             THEN validate_and_convert_action_field(v, Schema[f])
             ELSE convert_value(Schema[f].type, v)
    IN  IF v = Absent \/ (~Schema[f].nested /\ v = None) THEN Ok(v)
        ELSE IF r.ok THEN r ELSE Ok(v)

\* the treatment of one field inside the try block
convert_field(f, v) ==
    IF Schema[f].nested
    THEN IF v = Absent THEN Ok(v)
         ELSE validate_and_convert_action_field(v, Schema[f])
    ELSE IF v = Absent \/ v = None THEN Ok(v)
         ELSE convert_value(Schema[f].type, v)

RECURSIVE convert_fields(_, _)
convert_fields(fields, prepared) ==
    IF fields = <<>> THEN Ok(prepared)
    ELSE LET f == Head(fields)
             r == convert_field(f, prepared[f])
         IN  IF ~r.ok THEN ValueError
             ELSE convert_fields(Tail(fields), [prepared EXCEPT ![f] = r.v])

\* action fields first, then float, int and date fields; any exception
\* makes the result None
transform_for_bigquery(rec) ==
    LET r == convert_fields(action_fields \o float_fields \o int_fields
                            \o date_fields, rec.d)
    IN  IF r.ok THEN DictV(r.v) ELSE None

\* What the two functions leave in the dict they were given.
\* validate_record reads record[field] and assigns to issues only.
record_after_validate_record(rec) == rec

\* "prepared = record": the name prepared bound to the caller's dict
prepared_object_aliasing_record == "record"

\* "prepared = dict(record)": the conversions are assigned to the keys of
\* prepared, a dict of its own; the lists of the nested fields are replaced
\* in it by converted_actions, a new list of new dicts
prepared_object == "dict(record)"

\* the content of prepared when transform_for_bigquery returns or its
\* except clause is entered
RECURSIVE prepared_at_exit(_, _)
prepared_at_exit(fields, prepared) ==
    IF fields = <<>> THEN prepared
    ELSE LET f == Head(fields)
             r == convert_field(f, prepared[f])
         IN  IF ~r.ok THEN prepared
             ELSE prepared_at_exit(Tail(fields), [prepared EXCEPT ![f] = r.v])

record_after_transform_for_bigquery(rec) ==
    IF prepared_object = "record"
    THEN DictV(prepared_at_exit(action_fields \o float_fields \o int_fields
                                \o date_fields, rec.d))
    ELSE rec

-----------------------------------------------------------------------------
(* DataValidator.validate_batch *)

TransformationFailed == Issue("Transformation failed", "", 0, None)

Invalid(rec, issues) == [record |-> rec, issues |-> issues]

\* "if transformed:"
transformed_ok(transformed) == truthy(transformed)

\* The loop "for record in records" from its k-th record on; the break of
\* stop_on_first_error stands in the branch of a failed validation
RECURSIVE validate_batch_from(_, _, _, _, _)
validate_batch_from(recs, k, stop, valid, invalid) ==
    IF k > Len(recs) THEN [valid |-> valid, invalid |-> invalid]
    ELSE LET rec == recs[k]
             v == validate_record(rec)
             transformed == transform_for_bigquery(rec)
         IN  IF v.is_valid
             THEN IF transformed_ok(transformed)
                  THEN validate_batch_from(recs, k + 1, stop,
                           Append(valid, transformed), invalid)
                  ELSE validate_batch_from(recs, k + 1, stop, valid,
                           Append(invalid, Invalid(rec, <<TransformationFailed>>)))
             ELSE IF stop
                  THEN [valid |-> valid,
                        invalid |-> Append(invalid, Invalid(rec, v.issues))]
                  ELSE validate_batch_from(recs, k + 1, stop, valid,
                           Append(invalid, Invalid(rec, v.issues)))

validate_batch(recs, stop) == validate_batch_from(recs, 1, stop, <<>>, <<>>)

-----------------------------------------------------------------------------
(* Raw records handed to the validator *)

MaxActions == 2     \* longest list in the nested field 'actions'
MaxBatch == 3       \* longest list handed to validate_batch

Str_1_5 == StrV(<<"1", ".", "5">>)
Str_x == StrV(<<"x">>)
Str_12 == StrV(<<"1", "2">>)
Str_12_0 == StrV(<<"1", "2", ".", "0">>)
Str_3 == StrV(<<"3">>)
Str_date == StrV(<<"2", "0", "2", "4", "-", "0", "1", "-", "0", "5">>)
Str_date_short == StrV(<<"2", "0", "2", "4", "-", "1", "-", "5">>)
Str_date_bad == StrV(<<"2", "0", "2", "4", "-", "0", "2", "-", "3", "0">>)
Str_ad == StrV(<<"a", "d", "1">>)
Str_buy == StrV(<<"b", "u", "y">>)
Str_lead == StrV(<<"l", "e", "a", "d">>)

Action(action_type, value) == DictV([action_type |-> action_type, value |-> value])

ActionItems ==
    {Action(Str_buy, Str_3),        \* well formed
     Action(Str_lead, Str_x),       \* value is no number
     Action(Str_buy, None),         \* null value
     Action(IntV(7), IntV(4)),      \* action_type and value are numbers
     Action(Str_lead, Absent),      \* no 'value' key
     Str_x}                         \* not a dictionary

SpendValues == {Absent, None, Str_1_5, Str_x}
ImpressionsValues == {Absent, None, Str_12, Str_12_0, IntV(12), FloatV(12, 0)}
DateValues == {Absent, Str_date, Str_date_short, Str_date_bad}
AdIdValues == {Absent, Str_ad}
WebsiteCtrValues ==
    {Absent, ListV(<<Action(Str_lead, Str_1_5)>>), ListV(<<Action(Str_lead, Str_x)>>)}
ActionsValues ==
    {Absent, None, Str_x} \cup {ListV(items) : items \in SeqsUpTo(ActionItems, MaxActions)}

RawRecords ==
    {DictV([spend |-> a, impressions |-> b, date_start |-> c, ad_id |-> d,
            website_ctr |-> e, actions |-> f]) :
        a \in SpendValues, b \in ImpressionsValues, c \in DateValues,
        d \in AdIdValues, e \in WebsiteCtrValues, f \in ActionsValues}

RawRecord(a, b, c, d, f) ==
    DictV([spend |-> a, impressions |-> b, date_start |-> c, ad_id |-> d,
           website_ctr |-> Absent, actions |-> f])

\* Records of every class validate_batch distinguishes
BatchRecords ==
    {RawRecord(Str_1_5, Str_12, Str_date, Str_ad, ListV(<<Action(Str_buy, Str_3)>>)),
     RawRecord(Absent, IntV(12), Str_date_short, Str_ad, Absent),
     RawRecord(Absent, Absent, Absent, Absent, Absent),
     RawRecord(Str_1_5, Str_12_0, Str_date, Str_ad, Absent),
     RawRecord(Str_x, Str_12, Str_date_bad, Str_ad, Str_x),
     RawRecord(Str_1_5, Str_12, Str_date, Str_ad, ListV(<<Action(Str_lead, Str_x)>>))}

-----------------------------------------------------------------------------
(* SpecRecord: validate_record and transform_for_bigquery on one record *)

InitRecord ==
    /\ LoaderIdle
    /\ KpiIdle
    /\ PipelineIdle
    /\ ConcurrentIdle
    /\ FetchIdle
    /\ record \in RawRecords
    /\ vres = NotRun
    /\ tres = NotRun
    /\ batch = <<>>
    /\ stop_on_first_error = FALSE
    /\ bres = NotRun
    /\ rvres = NotRun
    /\ ares = NotRun
    /\ record0 = record
    /\ vres2 = NotRun

ValidateRecord ==
    /\ record # NotRun
    /\ vres = NotRun
    /\ ares = NotRun
    /\ vres' = validate_record(record)
    /\ record' = record_after_validate_record(record)
    /\ UNCHANGED <<tres, batch, stop_on_first_error, bres, rvres, ares,
                   record0, vres2>>
    /\ UNCHANGED nonValidatorVars

TransformForBigquery ==
    /\ record # NotRun
    /\ tres = NotRun
    /\ ares = NotRun
    /\ tres' = transform_for_bigquery(record)
    /\ record' = record_after_transform_for_bigquery(record)
    /\ UNCHANGED <<vres, batch, stop_on_first_error, bres, rvres, ares,
                   record0, vres2>>
    /\ UNCHANGED nonValidatorVars

\* validate_record applied to the record transform_for_bigquery returned
\* for a record that validated
ValidateTransformed ==
    /\ vres # NotRun
    /\ vres.is_valid
    /\ tres # NotRun
    /\ tres # None
    /\ rvres = NotRun
    /\ rvres' = validate_record(tres)
    /\ UNCHANGED <<record, vres, tres, batch, stop_on_first_error, bres, ares,
                   record0, vres2>>
    /\ UNCHANGED nonValidatorVars

\* The outcome of a call that returns a value or raises
Returned(r) == IF r.ok THEN [raised |-> FALSE, value |-> r.v]
               ELSE [raised |-> TRUE, value |-> None]

\* _validate_and_convert_action_field called on its own on every nested
\* field the record holds, as the first loop of transform_for_bigquery
\* calls it
ValidateAndConvertActionField ==
    /\ record # NotRun
    /\ ares = NotRun
    /\ vres = NotRun
    /\ tres = NotRun
    /\ ares' = [f \in Range(action_fields) |->
                  IF Has(record, f)
                  THEN Returned(validate_and_convert_action_field(
                                    record.d[f], Schema[f]))
                  ELSE NotRun]
    /\ UNCHANGED <<record, vres, tres, batch, stop_on_first_error, bres, rvres,
                   record0, vres2>>
    /\ UNCHANGED nonValidatorVars

\* validate_record called once more on the record both calls were given
ValidateRecordAgain ==
    /\ vres # NotRun
    /\ tres # NotRun
    /\ rvres = NotRun
    /\ vres2 = NotRun
    /\ vres2' = validate_record(record)
    /\ record' = record_after_validate_record(record)
    /\ UNCHANGED <<vres, tres, batch, stop_on_first_error, bres, rvres, ares,
                   record0>>
    /\ UNCHANGED nonValidatorVars

NextRecord ==
    \/ ValidateRecord
    \/ TransformForBigquery
    \/ ValidateTransformed
    \/ ValidateRecordAgain
    \/ ValidateAndConvertActionField

SpecRecord == InitRecord /\ [][NextRecord]_vars

-----------------------------------------------------------------------------
(* SpecBatch: validate_batch on a list of records *)

InitBatch ==
    /\ LoaderIdle
    /\ KpiIdle
    /\ PipelineIdle
    /\ ConcurrentIdle
    /\ FetchIdle
    /\ record = NotRun
    /\ vres = NotRun
    /\ tres = NotRun
    /\ batch \in SeqsUpTo(BatchRecords, MaxBatch)
    /\ stop_on_first_error \in BOOLEAN
    /\ bres = NotRun
    /\ rvres = NotRun
    /\ ares = NotRun
    /\ record0 = NotRun
    /\ vres2 = NotRun

ValidateBatch ==
    /\ bres = NotRun
    /\ bres' = validate_batch(batch, stop_on_first_error)
    /\ UNCHANGED <<record, vres, tres, batch, stop_on_first_error, rvres, ares,
                   record0, vres2>>
    /\ UNCHANGED nonValidatorVars

NextBatch == ValidateBatch

SpecBatch == InitBatch /\ [][NextBatch]_vars

-----------------------------------------------------------------------------
(* Properties of transform_for_bigquery (checked under SpecRecord) *)

action_conversion_fails(action, info) ==
    \/ action.t # "dict"
    \/ ~has_required_keys(action)
    \/ /\ action.d.value # None
       /\ ~convert_value(info.type, action.d.value).ok

\* the coercion of field f of the raw record raises
coercion_fails(rec, f) ==
    /\ Has(rec, f)
    /\ IF Schema[f].nested
       THEN /\ truthy(rec.d[f])
            /\ \/ rec.d[f].t # "list"
               \/ \E k \in 1..Len(rec.d[f].items) :
                      action_conversion_fails(rec.d[f].items[k], Schema[f])
       ELSE /\ rec.d[f] # None
            /\ ~convert_value(Schema[f].type, rec.d[f]).ok

HasType(v, type) ==
    CASE type = "float" -> v.t = "float"
      [] type = "int"   -> v.t = "int"
      [] type = "date"  -> v.t = "str" /\ strptime_ok(v.s)
      [] OTHER          -> TRUE

\* field f of the output is the coerced form of field f of the input
is_coerced(f, vin, vout) ==
    IF vin = Absent THEN vout = Absent
    ELSE IF Schema[f].nested
    THEN IF ~truthy(vin) THEN vout = None
         ELSE /\ vout.t = "list"
              /\ Len(vout.items) = Len(vin.items)
              /\ \A k \in 1..Len(vout.items) :
                    /\ vout.items[k].t = "dict"
                    /\ vout.items[k].d.action_type.t = "str"
                    /\ \/ vout.items[k].d.value = None
                       \/ HasType(vout.items[k].d.value, Schema[f].type)
    ELSE IF vin = None THEN vout = None
    ELSE IF Schema[f].type = "str" THEN vout = vin
    ELSE HasType(vout, Schema[f].type)

\* C8: transform_for_bigquery returns None when the coercion of any field
\* fails, at whatever step, and otherwise a record every field of which is
\* coerced; it never returns a partly coerced record.
C8_AllOrNothing ==
    (tres # NotRun) =>
        IF \E f \in Range(SchemaFields) : coercion_fails(record, f)
        THEN tres = None
        ELSE /\ tres.t = "dict"
             /\ \A f \in Range(SchemaFields) :
                    is_coerced(f, record.d[f], tres.d[f])

\* a record whose action, float and int fields coerce and whose date fails
C8_Witness ==
    /\ tres = None
    /\ record.d.spend = Str_1_5
    /\ record.d.impressions = Str_12
    /\ record.d.date_start = Str_date_bad
    /\ record.d.website_ctr = Absent
    /\ record.d.actions = ListV(<<Action(Str_buy, Str_3)>>)

-----------------------------------------------------------------------------
(* Properties of validate_batch (checked under SpecBatch) *)

\* validate reports no issue and transform returns a record
validates_and_transforms(rec) ==
    validate_record(rec).is_valid /\ transform_for_bigquery(rec) # None

invalid_entry(rec) ==
    IF validate_record(rec).is_valid
    THEN Invalid(rec, <<TransformationFailed>>)
    ELSE Invalid(rec, validate_record(rec).issues)

\* the transformed records the claim puts in valid, in input order
RECURSIVE expected_valid(_)
expected_valid(recs) ==
    IF recs = <<>> THEN <<>>
    ELSE (IF validates_and_transforms(Head(recs))
          THEN <<transform_for_bigquery(Head(recs))>> ELSE <<>>)
         \o expected_valid(Tail(recs))

\* the entries the claim puts in invalid, in input order
RECURSIVE expected_invalid(_)
expected_invalid(recs) ==
    IF recs = <<>> THEN <<>>
    ELSE (IF validates_and_transforms(Head(recs))
          THEN <<>> ELSE <<invalid_entry(Head(recs))>>)
         \o expected_invalid(Tail(recs))

\* C9: without stop_on_first_error every record is in exactly one list: in
\* valid, transformed, exactly when validate reports no issue and transform
\* returns a record; otherwise in invalid, with its validation issues or
\* with 'Transformation failed'.
C9_BatchPartition ==
    (bres # NotRun /\ ~stop_on_first_error) =>
        /\ bres.valid = expected_valid(batch)
        /\ bres.invalid = expected_invalid(batch)
        /\ Len(bres.valid) + Len(bres.invalid) = Len(batch)

\* validate_batch classifies the record as invalid
classified_invalid(rec) ==
    \/ ~validate_record(rec).is_valid
    \/ ~transformed_ok(transform_for_bigquery(rec))

\* C10: with stop_on_first_error the scan stops at the first record
\* classified invalid, whether it failed validation or transformation:
\* invalid holds at most one entry and no later record is in either list.
C10_StopAtFirstInvalid ==
    (bres # NotRun /\ stop_on_first_error) =>
        /\ Len(bres.invalid) <= 1
        /\ \A k \in 1..Len(batch) :
              (/\ classified_invalid(batch[k])
               /\ \A j \in 1..(k - 1) : ~classified_invalid(batch[j]))
              => /\ Len(bres.valid) = k - 1
                 /\ bres.invalid = <<invalid_entry(batch[k])>>

-----------------------------------------------------------------------------
(* Properties of validate_record and transform_for_bigquery, continued     *)
(* (checked under SpecRecord)                                              *)

\* C11: for a record that validate_record accepts and that
\* transform_for_bigquery turns into a record, validate_record applied to
\* the transformed record returns an empty issue list.
C11_TransformedValidates ==
    (rvres # NotRun) => (rvres.issues = <<>> /\ rvres.is_valid)

\* a record whose float, int and date fields were coerced from strings and
\* whose nested fields were converted
C11_Witness ==
    /\ rvres # NotRun
    /\ record.d.spend = Str_1_5
    /\ record.d.impressions = Str_12
    /\ record.d.date_start = Str_date_short
    /\ record.d.website_ctr = ListV(<<Action(Str_lead, Str_1_5)>>)
    /\ record.d.actions = ListV(<<Action(IntV(7), IntV(4)), Action(Str_buy, None)>>)
    /\ tres.d.spend = FloatV(15, 1)
    /\ tres.d.impressions = IntV(12)

\* an element the claim calls well formed with a coercible value
well_formed_coercible(action, info) ==
    /\ action.t = "dict"
    /\ has_required_keys(action)
    /\ action.d.value # None
    /\ convert_value(info.type, action.d.value).ok

\* C12: for a nested field holding a non-empty list of n well-formed
\* elements with coercible values, _validate_and_convert_action_field
\* returns a list of n elements in input order; element k has the string
\* form of the input's action_type and the input's value coerced to the
\* type of the field.
C12_ActionsPreserved ==
    (ares # NotRun) =>
        \A f \in Range(action_fields) :
            (/\ Has(record, f)
             /\ record.d[f].t = "list"
             /\ record.d[f].items # <<>>
             /\ \A k \in 1..Len(record.d[f].items) :
                    well_formed_coercible(record.d[f].items[k], Schema[f]))
            => /\ ~ares[f].raised
               /\ ares[f].value.t = "list"
               /\ Len(ares[f].value.items) = Len(record.d[f].items)
               /\ \A k \in 1..Len(record.d[f].items) :
                     LET in == record.d[f].items[k]
                         out == ares[f].value.items[k]
                     IN  /\ out.t = "dict"
                         /\ out.d.action_type = StrV(str(in.d.action_type))
                         /\ out.d.value = convert_value(Schema[f].type, in.d.value).v
                         /\ HasType(out.d.value, Schema[f].type)

\* two different well-formed elements, one with a numeric action_type
C12_Witness ==
    /\ ares # NotRun
    /\ record.d.actions = ListV(<<Action(Str_buy, Str_3), Action(IntV(7), IntV(4))>>)
    /\ ares.actions.value =
          ListV(<<Action(Str_buy, IntV(3)), Action(StrV(<<"7">>), IntV(4))>>)

issues_on(issues, f) == {k \in 1..Len(issues) : issues[k].field = f}

\* C13: integer coercion is strict.  With "12.0" in an integer field
\* transform_for_bigquery returns None and validate_record reports an issue
\* on the field; with "12" there validate_record reports no issue on the
\* field and transform_for_bigquery, when no other field fails, returns a
\* record whose field is the integer 12.
C13_StrictInt ==
    /\ (tres # NotRun /\ record.d.impressions = Str_12_0) => tres = None
    /\ (vres # NotRun /\ record.d.impressions = Str_12_0) =>
          /\ ~vres.is_valid
          /\ issues_on(vres.issues, "impressions") # {}
    /\ (vres # NotRun /\ record.d.impressions = Str_12) =>
          issues_on(vres.issues, "impressions") = {}
    /\ (/\ tres # NotRun
        /\ record.d.impressions = Str_12
        /\ \A f \in Range(SchemaFields) : ~coercion_fails(record, f))
       => /\ tres.t = "dict"
          /\ tres.d.impressions = IntV(12)

\* "12.0" is the only thing wrong with the record
C13_Witness ==
    /\ tres = None
    /\ vres # NotRun
    /\ Len(vres.issues) = 1
    /\ record.d.impressions = Str_12_0
    /\ record.d.spend = Str_1_5
    /\ record.d.date_start = Str_date
    /\ record.d.actions = ListV(<<Action(Str_buy, Str_3)>>)

\* what the claim counts, field by field
scalar_fails(rec, f) ==
    /\ Has(rec, f)
    /\ rec.d[f] # None
    /\ ~convert_value(Schema[f].type, rec.d[f]).ok

not_a_sequence(rec, f) ==
    Has(rec, f) /\ truthy(rec.d[f]) /\ rec.d[f].t # "list"

malformed_elements(rec, f) ==
    IF Has(rec, f) /\ rec.d[f].t = "list"
    THEN {k \in 1..Len(rec.d[f].items) :
             \/ rec.d[f].items[k].t # "dict"
             \/ ~has_required_keys(rec.d[f].items[k])}
    ELSE {}

expected_issue_count(rec) ==
    Cardinality({f \in Range(regular_fields) : scalar_fails(rec, f)})
    + Cardinality({f \in Range(action_fields) : not_a_sequence(rec, f)})
    + Cardinality({fk \in Range(action_fields) \X (1..(MaxActions + 1)) :
                      fk[2] \in malformed_elements(rec, fk[1])})

\* C14: validate_record returns (it does not raise) and its issue list
\* holds one entry for each present non-null scalar field that fails the
\* parse of its type, one for each non-empty nested field that is not a
\* list, and one index-qualified entry for each element of a nested list
\* that is not a dictionary or lacks 'action_type' or 'value', and nothing
\* else; is_valid is true exactly when the list is empty.
C14_ExhaustiveIssues ==
    (vres # NotRun) =>
        /\ vres.is_valid = (vres.issues = <<>>)
        /\ Len(vres.issues) = expected_issue_count(record)
        /\ \A f \in Range(regular_fields) :
              scalar_fails(record, f) =>
                  \E k \in 1..Len(vres.issues) :
                      /\ vres.issues[k].field = f
                      /\ vres.issues[k].kind = "Invalid value"
        /\ \A f \in Range(action_fields) :
              /\ not_a_sequence(record, f) =>
                    \E k \in 1..Len(vres.issues) :
                        /\ vres.issues[k].field = f
                        /\ vres.issues[k].kind = "is not a list"
              /\ \A j \in malformed_elements(record, f) :
                    \E k \in 1..Len(vres.issues) :
                        /\ vres.issues[k].field = f
                        /\ vres.issues[k].idx = j - 1
                        /\ vres.issues[k].kind \in
                              {"Item is not a dictionary",
                               "Item missing required keys"}

\* three scalar issues and two element issues in one record
C14_Witness ==
    /\ vres # NotRun
    /\ Len(vres.issues) = 5
    /\ record.d.spend = Str_x
    /\ record.d.impressions = Str_12_0
    /\ record.d.date_start = Str_date_bad
    /\ record.d.actions = ListV(<<Str_x, Action(Str_lead, Absent)>>)

-----------------------------------------------------------------------------
(* KPIMappingManager.  Account ids and names are sequences of tokens, so   *)
(* that the cache key f"{ad_account_id}:{name}" and the removal of the     *)
(* 'act_' prefix are computed, not assumed.                                *)

MaxMappings == 2    \* most rows of the mapping table before a sync
MaxAccounts == 2    \* longest account list handed to a sync

Acct1 == <<"act_", "1">>
Acct2 == <<"act_", "2">>
AllAccounts == <<"all">>
Lead == <<"Lead">>
Buy == <<"Buy">>

\* ad_account_id.replace('act_', '')
replace_act(ad_account_id) == SelectSeq(ad_account_id, LAMBDA c : c # "act_")

Mapping(name, action_type, type, account) ==
    [user_friendly_name |-> name, meta_action_type |-> action_type,
     mapping_type |-> type, ad_account_id |-> account]

\* get_standard_mappings: the one entry that is not commented out
get_standard_mappings ==
    <<Mapping(<<"offsite_conversion.fb_pixel_custom">>,
              "offsite_conversion.fb_pixel_custom", "pixel",
              <<"1052847603363129">>)>>

\* The custom conversions the upstream API lists for an account
CustomConversions(account_id) ==
    IF account_id = Acct1
    THEN <<[id |-> "7", name |-> Lead]>>
    ELSE <<[id |-> "8", name |-> Buy], [id |-> "9", name |-> Lead]>>

\* f"offsite_conversion.custom.{conversion['id']}"
custom_action_type(id) ==
    CASE id = "7" -> "offsite_conversion.custom.7"
      [] id = "8" -> "offsite_conversion.custom.8"
      [] OTHER    -> "offsite_conversion.custom.9"

\* FacebookClient.get_custom_conversions: the mappings of one account, or
\* [] when the request fails (the exception is logged and swallowed)
get_custom_conversions(ad_account_id, request_ok) ==
    IF request_ok
    THEN [k \in 1..Len(CustomConversions(ad_account_id)) |->
             Mapping(CustomConversions(ad_account_id)[k].name,
                     custom_action_type(CustomConversions(ad_account_id)[k].id),
                     "custom", replace_act(ad_account_id))]
    ELSE <<>>

\* fetch_custom_mappings: the loop over the accounts; ok[k] tells whether
\* the request for the k-th account succeeds
RECURSIVE fetch_custom_mappings(_, _)
fetch_custom_mappings(ad_account_ids, ok) ==
    IF ad_account_ids = <<>> THEN <<>>
    ELSE get_custom_conversions(Head(ad_account_ids), Head(ok))
         \o fetch_custom_mappings(Tail(ad_account_ids), Tail(ok))

\* pandas_gbq.to_gbq(..., if_exists='replace')
to_gbq_append(table, rows) == table \o rows

to_gbq(table, rows) == rows

\* What is recorded of a call of update_mapping_table that returned: its
\* inputs, the size of the table it found, and the counts it returned
SyncReturned(ad_account_ids, ok, include_custom, write_ok, counts) ==
    [ad_account_ids |-> ad_account_ids, ok |-> ok,
     include_custom |-> include_custom, write_ok |-> write_ok,
     rows_before |-> Len(mapping_table), raised |-> FALSE, result |-> counts]

\* ... and of a call that raised
SyncRaised(include_custom, write_ok) ==
    [include_custom |-> include_custom, write_ok |-> write_ok, raised |-> TRUE]

\* update_mapping_table for the account list of the environment;
\* write_ok tells whether to_gbq succeeds
update_mapping_table(ad_account_ids, ok, include_custom, write_ok) ==
    LET standard == get_standard_mappings
        custom == IF include_custom
                  THEN fetch_custom_mappings(ad_account_ids, ok) ELSE <<>>
        all_mappings == standard \o custom
    IN  /\ IF all_mappings = <<>>
           THEN /\ sync' = SyncReturned(ad_account_ids, ok, include_custom,
                                        write_ok,
                                        [standard |-> 0, custom |-> 0, total |-> 0])
                /\ UNCHANGED <<mapping_table, mappings_cache, load_failed,
                               queries>>
           ELSE IF write_ok
           THEN /\ mapping_table' = to_gbq(mapping_table, all_mappings)
                /\ mappings_cache' = NoCache
                /\ load_failed' = FALSE
                /\ queries' = 0
                /\ sync' = SyncReturned(ad_account_ids, ok, include_custom,
                                        write_ok,
                                        [standard |-> Len(standard),
                                         custom |-> Len(custom),
                                         total |-> Len(all_mappings)])
           ELSE /\ sync' = SyncRaised(include_custom, write_ok)
                /\ UNCHANGED <<mapping_table, mappings_cache, load_failed,
                               queries>>
        /\ lookup' = NotRun
        /\ UNCHANGED nonKpiVars

\* key = f"{row.ad_account_id}:{row.user_friendly_name}"
cache_key(ad_account_id, name) == ad_account_id \o <<":">> \o name

\* self._mappings_cache[key] = row.meta_action_type, row after row: the
\* cache is a set of key/value entries with one entry per key
RECURSIVE cache_of(_)
cache_of(rows) ==
    IF rows = <<>> THEN {}
    ELSE LET row == rows[Len(rows)]
             key == cache_key(row.ad_account_id, row.user_friendly_name)
             before == cache_of(SubSeq(rows, 1, Len(rows) - 1))
         IN  {e \in before : e.key # key}
             \cup {[key |-> key, value |-> row.meta_action_type]}

\* a handler that sends the query again when it failed, until it has the rows
load_mappings_retrying(table, query_ok) ==
    [loaded |-> TRUE, entries |-> cache_of(table)]

\* _load_mappings: the query result, or {} when the query raises
load_mappings(table, query_ok) ==
    [loaded |-> TRUE, entries |-> IF query_ok THEN cache_of(table) ELSE {}]

cache_has(cache, key) == \E e \in cache.entries : e.key = key

\* an action type as a value a lookup returns
Found(action_type) == [t |-> "str", s |-> action_type]

\* self._mappings_cache.get(key)
cache_get(cache, key) ==
    IF cache_has(cache, key)
    THEN Found((CHOOSE e \in cache.entries : e.key = key).value)
    ELSE None

\* the two probes of get_mapping_for_account
account_first(cache, ad_account_id, kpi_name) ==
    IF cache_has(cache, cache_key(ad_account_id, kpi_name))
    THEN cache_get(cache, cache_key(ad_account_id, kpi_name))
    ELSE cache_get(cache, cache_key(AllAccounts, kpi_name))

\* query_ok tells whether the query of _load_mappings succeeds; no query
\* runs when the cache is filled
get_mapping_for_account(ad_account_id, kpi_name) ==
    \E query_ok \in {b \in BOOLEAN : mappings_cache # NoCache => b} :
        LET cache == IF mappings_cache = NoCache
                     THEN load_mappings(mapping_table, query_ok)
                     ELSE mappings_cache
        IN  /\ mappings_cache' = cache
            /\ load_failed' = IF mappings_cache = NoCache THEN ~query_ok
                              ELSE load_failed
            /\ queries' = IF mappings_cache = NoCache THEN queries + 1
                          ELSE queries
            /\ lookup' = [ad_account_id |-> ad_account_id, kpi_name |-> kpi_name,
                          result |-> account_first(cache, ad_account_id, kpi_name)]
            /\ UNCHANGED <<mapping_table, sync>>
            /\ UNCHANGED nonKpiVars

\* Rows the mapping table can hold before the first sync of the model
MappingRows ==
    {Mapping(n, a, "custom", acct) :
        n \in {Lead, Buy}, a \in {"lead", "offsite_conversion.custom.7"},
        acct \in {<<"1">>, AllAccounts}}

LookupAccounts == {<<"1">>, <<"2">>}

InitKPI ==
    /\ LoaderIdle
    /\ ValidatorIdle
    /\ PipelineIdle
    /\ ConcurrentIdle
    /\ FetchIdle
    /\ mapping_table \in SeqsUpTo(MappingRows, MaxMappings)
    /\ mappings_cache = NoCache
    /\ lookup = NotRun
    /\ load_failed = FALSE
    /\ sync = NotRun
    /\ queries = 0

NextKPI ==
    \/ \E a \in LookupAccounts, n \in {Lead, Buy} : get_mapping_for_account(a, n)
    \/ \E ids \in SeqsUpTo({Acct1, Acct2}, MaxAccounts) :
          \E ok \in [1..Len(ids) -> BOOLEAN], write_ok \in BOOLEAN :
              \* include_custom keeps its default at the one call site
              update_mapping_table(ids, ok, TRUE, write_ok)

SpecKPI == InitKPI /\ [][NextKPI]_vars

-----------------------------------------------------------------------------
(* Properties of the KPIMappingManager (checked under SpecKPI) *)

mappings_for(ad_account_id, kpi_name) ==
    {Found(mapping_table[k].meta_action_type) : k \in
        {j \in 1..Len(mapping_table) :
            /\ mapping_table[j].ad_account_id = ad_account_id
            /\ mapping_table[j].user_friendly_name = kpi_name}}

Precedence ==
    LET specific == mappings_for(lookup.ad_account_id, lookup.kpi_name)
        global == mappings_for(AllAccounts, lookup.kpi_name)
    IN  IF specific # {} THEN lookup.result \in specific
        ELSE IF global # {} THEN lookup.result \in global
        ELSE lookup.result = None

\* C15: for any contents of the mapping table, get_mapping_for_account
\* returns the action type of a mapping of the requested account for the
\* name when one exists (also when an 'all' mapping exists), otherwise that
\* of an 'all' mapping when one exists, otherwise None.
C15_Precedence == (lookup # NotRun) => Precedence

\* Supporting fact for C15: the precedence holds whenever the query that
\* filled the cache succeeded.
PrecedenceOnLoadedTable == (lookup # NotRun /\ ~load_failed) => Precedence

PrecedenceOnLoadedTableWitness ==
    /\ lookup # NotRun /\ ~load_failed
    /\ mappings_for(lookup.ad_account_id, lookup.kpi_name) # {}
    /\ mappings_for(AllAccounts, lookup.kpi_name) # {}
    /\ mappings_for(AllAccounts, lookup.kpi_name)
          # mappings_for(lookup.ad_account_id, lookup.kpi_name)

fetched(k) ==
    IF sync.ok[k] THEN get_custom_conversions(sync.ad_account_ids[k], TRUE)
    ELSE <<>>

all_fetched == Concat([k \in 1..Len(sync.ad_account_ids) |-> fetched(k)])

\* C16: update_mapping_table over accounts of which some fail to list their
\* custom conversions does not raise because of these failures (it raises
\* only when the write of the table fails); when it returns, the mapping
\* table holds exactly the standard mappings followed by the custom mappings
\* of the accounts whose fetch succeeded, in account order, nothing of what
\* it held before, and the counts are total = standard + custom with custom
\* counting the fetched mappings.
C16_PartialSync ==
    (sync # NotRun /\ sync.include_custom) =>
        /\ sync.raised => ~sync.write_ok
        /\ ~sync.raised =>
              /\ mapping_table = get_standard_mappings \o all_fetched
              /\ sync.result.standard = Len(get_standard_mappings)
              /\ sync.result.custom = Len(all_fetched)
              /\ sync.result.total = sync.result.standard + sync.result.custom

\* the second account fails, the first one succeeds, and the table held
\* other rows before
C16_Witness ==
    /\ sync # NotRun /\ sync.include_custom /\ ~sync.raised
    /\ sync.ad_account_ids = <<Acct2, Acct1>>
    /\ sync.ok = <<TRUE, FALSE>>
    /\ sync.rows_before = MaxMappings
    /\ Len(mapping_table) = 3

-----------------------------------------------------------------------------
(* FacebookToBigQueryPipeline.run_full_sync and its entry points: the      *)
(* command line of FacebookToBigQueryPipeline.py and the HTTP endpoint     *)
(* /sync-ads-insights of main.py.  One action per step of run_full_sync;   *)
(* the components are called for their outcome (returned or raised) and    *)
(* for the tables they write.                                              *)

MaxInsights == 2    \* most records one fetch returns

Entries == {"cli", "http"}
Modes == {"full", "incremental", "daterange", "validate"}

\* the modes the endpoint accepts; any other mode is answered with HTTP 400
HttpModes == {"incremental", "daterange", "full"}

\* The dry_run argument run_full_sync receives: the flag in mode full,
\* True from validate_only, the default False from run_incremental_sync
\* and run_date_range_sync
dry_run_argument(mode, flag) ==
    CASE mode = "full"     -> flag
      [] mode = "validate" -> TRUE
      [] OTHER             -> FALSE

NoSteps ==
    [kpi_mappings |-> Absent, fetch_insights |-> Absent,
     validation |-> Absent, upload |-> Absent]

Started == [status |-> "started", steps |-> NoSteps, error |-> Absent]

Skipped == [status |-> "skipped"]

SetStep(res, step, value) == [res EXCEPT !.steps[step] = value]

PipelineUnchanged == UNCHANGED nonPipelineVars

receive_request(entry, mode, flag, update_kpi, validation, tbl) ==
    /\ ppc = "idle"
    /\ request' = [entry |-> entry, mode |-> mode, dry_run |-> flag,
                   update_kpi_mappings |-> update_kpi,
                   enable_validation |-> validation,
                   meta_ads_table |-> tbl]
    /\ IF entry = "http" /\ mode \notin HttpModes
       THEN /\ ppc' = "done"
            /\ delivered' = [kind |-> "HTTPException", status_code |-> 400]
            /\ UNCHANGED <<dry_run, results>>
       ELSE /\ ppc' = "kpi_mappings"
            /\ dry_run' = dry_run_argument(mode, flag)
            /\ results' = Started
            /\ delivered' = NotRun
    /\ insights' = 0
    /\ insights_to_upload' = 0
    /\ writes' = {}
    /\ handed' = NotRun
    /\ PipelineUnchanged

\* An exception leaves the try block for the handler
Raise(message) ==
    /\ ppc' = "except"
    /\ delivered' = [kind |-> "raising", message |-> message]

\* Step 1: update KPI mappings if enabled
step_kpi_mappings ==
    /\ ppc = "kpi_mappings"
    /\ IF request.update_kpi_mappings /\ ~dry_run
       THEN \E ok \in BOOLEAN :
               IF ok
               THEN /\ results' = SetStep(results, "kpi_mappings",
                                          [status |-> "success"])
                    /\ writes' = writes \cup {"kpi_event_mapping"}
                    /\ ppc' = "fetch_insights"
                    /\ UNCHANGED delivered
               ELSE /\ Raise("update_mapping_table")
                    /\ UNCHANGED <<results, writes>>
       ELSE /\ results' = SetStep(results, "kpi_mappings", Skipped)
            /\ ppc' = "fetch_insights"
            /\ UNCHANGED <<writes, delivered>>
    /\ UNCHANGED <<request, dry_run, insights, insights_to_upload>>
    /\ UNCHANGED handed
    /\ PipelineUnchanged

\* get_insights raises only while it parses the dates of a caller's range;
\* the errors of the upstream API are logged and skipped
get_insights_may_raise(mode) == mode = "daterange"

\* Step 2: fetch the insights; no data ends the run
step_fetch_insights ==
    /\ ppc = "fetch_insights"
    /\ \/ \E n \in 0..MaxInsights :
            /\ insights' = n
            /\ IF n = 0
               THEN /\ results' =
                        [SetStep(results, "fetch_insights",
                                 [status |-> "success", total_records |-> n])
                         EXCEPT !.status = "completed_no_data"]
                    /\ ppc' = "done"
                    /\ delivered' = [kind |-> "results"]
               ELSE /\ results' = SetStep(results, "fetch_insights",
                                     [status |-> "success", total_records |-> n])
                    /\ ppc' = "validation"
                    /\ UNCHANGED delivered
       \/ /\ get_insights_may_raise(request.mode)
          /\ Raise("get_insights")
          /\ UNCHANGED <<insights, results>>
    /\ UNCHANGED <<request, dry_run, insights_to_upload, writes>>
    /\ UNCHANGED handed
    /\ PipelineUnchanged

\* Step 3: validate_batch, then _save_invalid_records when a record is
\* invalid (the file write can fail)
step_validation ==
    /\ ppc = "validation"
    /\ IF request.enable_validation
       THEN \E valid \in 0..insights, saved \in BOOLEAN :
               /\ saved \/ valid < insights
               /\ results' = SetStep(results, "validation",
                                [status |-> "success", valid_records |-> valid,
                                 invalid_records |-> insights - valid])
               /\ IF saved
                  THEN /\ insights_to_upload' = valid
                       /\ ppc' = "upload"
                       /\ UNCHANGED delivered
                  ELSE /\ Raise("_save_invalid_records")
                       /\ UNCHANGED insights_to_upload
       ELSE /\ results' = SetStep(results, "validation", Skipped)
            /\ insights_to_upload' = insights
            /\ ppc' = "upload"
            /\ UNCHANGED delivered
    /\ UNCHANGED <<request, dry_run, insights, writes>>
    /\ UNCHANGED handed
    /\ PipelineUnchanged

\* The outcomes of insert_records on the table of the configuration: on a
\* table whose id holds 'meta_ads' it raises before any warehouse call;
\* otherwise it succeeds, or raises before or after the MERGE
insert_records_outcomes(tbl) ==
    IF is_meta_ads(tbl) /\ ensure_meta_ads_table_exists = "AttributeError"
    THEN {[raised |-> TRUE, merged |-> FALSE]}
    ELSE {[raised |-> FALSE, merged |-> TRUE],
          [raised |-> TRUE, merged |-> FALSE],
          [raised |-> TRUE, merged |-> TRUE]}

\* insights_to_upload is valid_records, the transformed records of
\* validate_batch, when validation is enabled, and the fetched list itself
\* when it is not
validated_records == request.enable_validation

Handed(n, validated) == [records |-> n, validated |-> validated]

\* Step 4: upload
step_upload ==
    /\ ppc = "upload"
    /\ IF ~dry_run /\ insights_to_upload > 0
       THEN \E o \in insert_records_outcomes(request.meta_ads_table) :
               /\ handed' = Handed(insights_to_upload, validated_records)
               /\ writes' = IF o.merged THEN writes \cup {"meta_ads"} ELSE writes
               /\ IF o.raised
                  THEN /\ Raise("insert_records")
                       /\ UNCHANGED results
                  ELSE /\ results' = SetStep(results, "upload",
                                        [status |-> "success",
                                         processed |-> insights_to_upload])
                       /\ ppc' = "complete"
                       /\ UNCHANGED delivered
       ELSE /\ results' = SetStep(results, "upload", Skipped)
            /\ ppc' = "complete"
            /\ UNCHANGED <<writes, delivered, handed>>
    /\ UNCHANGED <<request, dry_run, insights, insights_to_upload>>
    /\ PipelineUnchanged

\* "Complete": the results are returned to the entry point
complete ==
    /\ ppc = "complete"
    /\ results' = [results EXCEPT !.status = "completed"]
    /\ delivered' = [kind |-> "results"]
    /\ ppc' = "done"
    /\ UNCHANGED <<request, dry_run, insights, insights_to_upload, writes>>
    /\ UNCHANGED handed
    /\ PipelineUnchanged

\* What the entry point makes of the exception run_full_sync raises again:
\* the command line logs it and exits with 1; the endpoint answers 400 to
\* a ValueError (the one strptime raises in get_insights) and 500 to the
\* rest, with the message as its detail
reraise(entry, message) ==
    IF entry = "cli"
    THEN [kind |-> "exit", code |-> 1]
    ELSE [kind |-> "HTTPException",
          status_code |-> IF message = "get_insights" THEN 400 ELSE 500]

\* except Exception: the results are marked failed and the exception is
\* raised again
on_exception ==
    /\ ppc = "except"
    /\ results' = [results EXCEPT !.status = "failed",
                                  !.error = delivered.message]
    /\ delivered' = reraise(request.entry, delivered.message)
    /\ ppc' = "done"
    /\ UNCHANGED <<request, dry_run, insights, insights_to_upload, writes>>
    /\ UNCHANGED handed
    /\ PipelineUnchanged

\* the request is over; the pipeline object of the request is dropped
end_request ==
    /\ ppc = "done"
    /\ request' = NotRun
    /\ ppc' = "idle"
    /\ dry_run' = FALSE
    /\ results' = NotRun
    /\ insights' = 0
    /\ insights_to_upload' = 0
    /\ writes' = {}
    /\ delivered' = NotRun
    /\ handed' = NotRun
    /\ PipelineUnchanged

InitPipeline ==
    /\ LoaderIdle
    /\ ValidatorIdle
    /\ KpiIdle
    /\ PipelineIdle
    /\ ConcurrentIdle
    /\ FetchIdle

NextPipeline ==
    \/ \E entry \in Entries, mode \in Modes, flag \in BOOLEAN,
          update_kpi_mappings \in BOOLEAN, enable_validation \in BOOLEAN,
          meta_ads_table \in TableIds :
          receive_request(entry, mode, flag, update_kpi_mappings,
                          enable_validation, meta_ads_table)
    \/ step_kpi_mappings
    \/ step_fetch_insights
    \/ step_validation
    \/ step_upload
    \/ complete
    \/ on_exception
    \/ end_request

SpecPipeline == InitPipeline /\ [][NextPipeline]_vars

-----------------------------------------------------------------------------
(* Properties of the pipeline (checked under SpecPipeline) *)

RunFailed == ppc = "done" /\ results # NotRun /\ results.status = "failed"

\* C17: a run of which a step failed hands its structured result to the
\* caller: status 'failed', the message of the exception attached, an entry
\* for each of the four steps, and the counts of the steps that succeeded.
C17_ResultOnFailure ==
    RunFailed =>
        /\ delivered.kind = "results"
        /\ results.error # Absent
        /\ \A step \in DOMAIN results.steps : results.steps[step] # Absent

\* C18: a run requested with the dry-run flag writes to no table of the
\* warehouse, in every mode and from both entry points.
C18_DryRunWritesNothing ==
    (request # NotRun /\ request.dry_run) => writes = {}

\* Supporting fact for C18: a run of run_full_sync that received
\* dry_run = True writes to no table.
DryRunArgumentWritesNothing ==
    (request # NotRun /\ dry_run) => writes = {}

DryRunArgumentWitness ==
    /\ ppc = "done" /\ dry_run /\ insights_to_upload > 0
    /\ request.update_kpi_mappings
    /\ results.status = "completed"

-----------------------------------------------------------------------------
(* The two modes of the loader and the states of one invocation (checked   *)
(* under Spec)                                                             *)

TwoPhaseReturned == two_phase # NotRun /\ ~two_phase.raised

\* C19: started from the same target table with the same record list, the
\* two-phase mode and the single-pass merge leave the target table with the
\* same rows.
C19_TwoPhaseEquivalent ==
    TwoPhaseReturned => two_phase.table = target

\* No row of the starting table shares date and ad with a record of the
\* list while belonging to another account
KeysAgree ==
    \A t \in Rows, j \in 1..Len(records) :
        (target0[t] > 0 /\ update_merge_on(t, records[j]))
            => t.account_id = records[j].account_id

\* Supporting fact for C19: the two modes agree when the two keys select
\* the same rows.
TwoPhaseEquivalentWhenKeysAgree ==
    (TwoPhaseReturned /\ KeysAgree) => two_phase.table = target

TwoPhaseEquivalentWitness ==
    /\ TwoPhaseReturned
    /\ KeysAgree
    /\ target0 # EmptyTable
    /\ target # target0
    /\ \E j \in 1..Len(records) : target0[records[j]] = 0 /\ inserted = 0

StagingCreated == Call("create_table", TRUE) \in Range(log)

MergeCompleted == Call("MERGE", TRUE) \in Range(log)

Failed == pc = "done" /\ outcome = "raised"

\* C20: an invocation fails only after its staging table was created and
\* before its MERGE completed; once the MERGE has completed the invocation
\* ends with success.
C20_FailureWindow ==
    /\ Failed => (StagingCreated /\ ~MergeCompleted)
    /\ (pc = "done" /\ MergeCompleted) => Succeeded

IsLoad(c) == c.op \in {"WRITE_TRUNCATE", "WRITE_APPEND"} /\ c.ok

\* Supporting fact for C20: the calls of a successful invocation come in
\* the order of the states: staging created, loads, MERGE, drop.
StateOrderOnSuccess ==
    Succeeded =>
        /\ Len(log) >= 5
        /\ log[1] = Call("get_table", TRUE)
        /\ log[2] = Call("create_table", TRUE)
        /\ \A j \in 3..(Len(log) - 2) : IsLoad(log[j])
        /\ log[Len(log) - 1] = Call("MERGE", TRUE)
        /\ log[Len(log)] = Call("delete_table", TRUE)

StateOrderWitness == Succeeded /\ Len(log) = 6

-----------------------------------------------------------------------------
(* The except handler of _insert_records_using_merge (checked under Spec)  *)

\* the name the model gives to the exception of a failed warehouse call
exception_of(call) ==
    CASE call.op = "get_table"    -> "get_table"
      [] call.op = "create_table" -> "create_table"
      [] call.op = "MERGE"        -> "merge"
      [] call.op = "delete_table" -> "delete_table"
      [] OTHER                    -> "load"

FailedCalls == {j \in 1..Len(log) : ~log[j].ok}

FirstFailedCall == CHOOSE j \in FailedCalls : \A k \in FailedCalls : j <= k

CleanupDeleteFailed ==
    /\ Failed
    /\ Cardinality(FailedCalls) >= 2
    /\ log[Len(log)] = Call("delete_table", FALSE)

\* C21: when a step fails and the cleanup delete of the staging table fails
\* as well, the exception that reaches the caller is the one of the failing
\* step; the failure of the delete is swallowed.
C21_OriginalErrorPropagates ==
    CleanupDeleteFailed =>
        /\ FirstFailedCall < Len(log)
        /\ error = exception_of(log[FirstFailedCall])

C21_Witness ==
    /\ CleanupDeleteFailed
    /\ staging.exists
    /\ error = "merge"

-----------------------------------------------------------------------------
(* The load loop of _insert_records_using_merge (checked under Spec) *)

\* the records the chunks loaded so far cover
Loaded == SubSeq(records, 1, Min(i, Len(records)))

\* C22: the chunks are consecutive slices of at most batch_size records;
\* after each load the staging table holds the records up to the end of the
\* chunk, each once, and when the MERGE is issued it holds exactly the
\* record list.
C22_StagingHoldsRecords ==
    /\ (pc = "load" /\ staging.exists) =>
          /\ i % batch_size = 0
          /\ i < Len(records)
          /\ Len(batch_slice(records, i, batch_size)) \in 1..batch_size
          /\ staging.rows = Loaded
    /\ pc = "merge" =>
          /\ i >= Len(records)
          /\ staging.rows = records

C22_Witness ==
    /\ pc = "merge"
    /\ Len(records) = 2
    /\ batch_size = 1
    /\ records[1] # records[2]
    /\ Call("WRITE_APPEND", TRUE) \in Range(log)

-----------------------------------------------------------------------------
(* Two invocations of _insert_records_using_merge against one target       *)
(* table, as two requests of /sync-ads-insights handed to worker threads   *)
(* make them.  Each invocation names its staging table after the target    *)
(* and the time it reads; the staging tables live in the shared dataset.   *)

MaxClock == 3               \* the clock stops here
TicksPerMicrosecond == 2    \* two instants of the clock fall in one microsecond

\* datetime.now(): the time of the call, to the microsecond
datetime_now(instant) == instant \div TicksPerMicrosecond

\* strftime('%Y%m%d_%H%M%S_%f'): seconds and microseconds of the datetime;
\* f"{table_id}_temp_{timestamp}" on the one target table of the model
MicrosecondsPerSecond == 1000000

strftime(dt) == <<dt \div MicrosecondsPerSecond, dt % MicrosecondsPerSecond>>

temp_table_name(instant) == <<"ad_insights", "_temp_">> \o strftime(datetime_now(instant))

StagingTable(name, creator) == [name |-> name, creator |-> creator]

TablesNamed(name) == {t \in temp_tables : t.name = name}

Touch(w, op) ==
    {[by |-> w, op |-> op, creator |-> t.creator] :
        t \in TablesNamed(temp_table_id[w])}

ConcurrentUnchanged == UNCHANGED nonConcurrentVars

\* time passes
tick ==
    /\ now < MaxClock
    /\ now' = now + 1
    /\ UNCHANGED <<cpc, temp_table_id, temp_tables, touched>>
    /\ ConcurrentUnchanged

\* "Generate unique temp table name": the invocation reads the clock; no two
\* reads happen at the same instant
generate_temp_table_name(w) ==
    /\ cpc[w] = "idle"
    /\ now < MaxClock
    /\ temp_table_id' = [temp_table_id EXCEPT ![w] = temp_table_name(now)]
    /\ now' = now + 1
    /\ cpc' = [cpc EXCEPT ![w] = "create_table"]
    /\ UNCHANGED <<temp_tables, touched>>
    /\ ConcurrentUnchanged

\* self.client.create_table(temp_table): rejected when a table of that
\* name exists (no exists_ok)
concurrent_create_table(w) ==
    /\ cpc[w] = "create_table"
    /\ \E ok \in {b \in BOOLEAN : b => TablesNamed(temp_table_id[w]) = {}} :
          IF ok
          THEN /\ temp_tables' = temp_tables
                                 \cup {StagingTable(temp_table_id[w], w)}
               /\ cpc' = [cpc EXCEPT ![w] = "load"]
          ELSE /\ UNCHANGED temp_tables
               /\ cpc' = [cpc EXCEPT ![w] = "except"]
    /\ UNCHANGED <<now, temp_table_id, touched>>
    /\ ConcurrentUnchanged

\* a call on the staging table of the invocation's name; it fails when no
\* such table exists, and can fail when one does
StagingCall(w, op, next) ==
    /\ \E ok \in {b \in BOOLEAN : b => TablesNamed(temp_table_id[w]) # {}} :
          IF ok
          THEN /\ touched' = touched \cup Touch(w, op)
               /\ cpc' = [cpc EXCEPT ![w] = next]
          ELSE /\ UNCHANGED touched
               /\ cpc' = [cpc EXCEPT ![w] = "except"]
    /\ UNCHANGED <<now, temp_table_id>>
    /\ ConcurrentUnchanged

\* the load jobs, the first of them with WRITE_TRUNCATE
concurrent_load(w) ==
    /\ cpc[w] = "load"
    /\ StagingCall(w, "WRITE_TRUNCATE", "merge")
    /\ UNCHANGED temp_tables

\* MERGE ... USING the staging table
concurrent_merge(w) ==
    /\ cpc[w] = "merge"
    /\ StagingCall(w, "MERGE", "drop")
    /\ UNCHANGED temp_tables

\* the invocation is over: its result or its exception goes to the caller
Finish(w) ==
    /\ cpc' = [cpc EXCEPT ![w] = "idle"]
    /\ temp_table_id' = [temp_table_id EXCEPT ![w] = NotRun]

\* delete_table(temp_table_ref) of step 4, and the one of the except
\* handler, whose failure is swallowed
concurrent_delete_table(w) ==
    /\ cpc[w] \in {"drop", "except"}
    /\ \E ok \in {b \in BOOLEAN : b => TablesNamed(temp_table_id[w]) # {}} :
          IF ok
          THEN /\ touched' = touched \cup Touch(w, "delete_table")
               /\ temp_tables' = temp_tables \ TablesNamed(temp_table_id[w])
               /\ Finish(w)
          ELSE /\ UNCHANGED <<touched, temp_tables>>
               /\ IF cpc[w] = "drop"
                  THEN /\ cpc' = [cpc EXCEPT ![w] = "except"]
                       /\ UNCHANGED temp_table_id
                  ELSE Finish(w)
    /\ UNCHANGED now
    /\ ConcurrentUnchanged

InitConcurrent ==
    /\ LoaderIdle
    /\ ValidatorIdle
    /\ KpiIdle
    /\ PipelineIdle
    /\ ConcurrentIdle
    /\ FetchIdle

NextConcurrent ==
    \/ tick
    \/ \E w \in Invocations : generate_temp_table_name(w)
    \/ \E w \in Invocations : concurrent_create_table(w)
    \/ \E w \in Invocations : concurrent_load(w)
    \/ \E w \in Invocations : concurrent_merge(w)
    \/ \E w \in Invocations : concurrent_delete_table(w)

SpecConcurrent == InitConcurrent /\ [][NextConcurrent]_vars

-----------------------------------------------------------------------------
(* Properties of concurrent invocations (checked under SpecConcurrent) *)

Running(w) == temp_table_id[w] # NotRun

\* C23: two invocations against one target never use the same staging
\* table: the names of two running invocations differ, and no invocation
\* truncates, merges from or deletes a staging table another one created.
C23_StagingNotShared ==
    /\ \A v, w \in Invocations :
          (v # w /\ Running(v) /\ Running(w))
              => temp_table_id[v] # temp_table_id[w]
    /\ \A t \in touched : t.by = t.creator

\* Supporting fact for C23: invocations that read the clock in different
\* microseconds get different names.
NamesDifferAcrossMicroseconds ==
    \A s, t \in 0..MaxClock :
        datetime_now(s) # datetime_now(t)
            => temp_table_name(s) # temp_table_name(t)

-----------------------------------------------------------------------------
(* The cache of the KPIMappingManager across syncs (checked under SpecKPI) *)

\* the last update_mapping_table succeeded and a lookup was made since
LookupAfterSync == sync # NotRun /\ ~sync.raised /\ lookup # NotRun

\* C24: a lookup made after a successful update_mapping_table returns a
\* value of the refreshed table (the table is read again, nothing cached
\* before the sync is returned), and the table is read at most once between
\* two syncs.
C24_LookupSeesRefreshedTable ==
    LookupAfterSync => (Precedence /\ queries <= 1)

\* Supporting fact for C24: a cache that was filled by a successful query
\* holds the rows of the present table (the sync resets it), and at most one
\* query is sent between two resets.
CacheNeverStale ==
    /\ (mappings_cache # NoCache /\ ~load_failed)
          => mappings_cache.entries = cache_of(mapping_table)
    /\ queries <= 1
    /\ queries = 0 <=> mappings_cache = NoCache

CacheNeverStaleWitness ==
    /\ LookupAfterSync
    /\ ~load_failed
    /\ sync.rows_before > 0
    /\ lookup.result # None

\* C30: when the query of _load_mappings fails the cache is set to empty:
\* every lookup returns None and no further query is sent, until
\* update_mapping_table succeeds and resets the cache.
C30_FailedLoadEmptiesCache ==
    /\ load_failed =>
          /\ mappings_cache = [loaded |-> TRUE, entries |-> {}]
          /\ queries = 1
          /\ lookup # NotRun => lookup.result = None
    /\ (sync # NotRun /\ ~sync.raised /\ lookup = NotRun)
          => (mappings_cache = NoCache /\ ~load_failed /\ queries = 0)

\* a lookup that finds the cache emptied by an earlier failed load, on a
\* table that holds a mapping for it
C30_Witness ==
    /\ load_failed
    /\ lookup # NotRun
    /\ mappings_for(lookup.ad_account_id, lookup.kpi_name) # {}
    /\ sync # NotRun
    /\ ~sync.raised

-----------------------------------------------------------------------------
(* Order of the steps of a run and what the loader receives (checked under *)
(* SpecPipeline)                                                           *)

InRun == results # NotRun

MappingRefreshed == "kpi_event_mapping" \in writes

Fetched == results.steps.fetch_insights # Absent

Upserted == "meta_ads" \in writes

\* C25: in a run the mapping table is refreshed after the fetch and after
\* the upsert of the fetched records, not before them.
C25_RefreshAfterUpsert ==
    (InRun /\ MappingRefreshed) => (Fetched /\ Upserted)

\* Supporting fact for C25: the other steps come in the stated order: no
\* validation entry before the fetch, no upload before the validation step.
FetchValidateUploadOrder ==
    InRun =>
        /\ results.steps.validation # Absent => Fetched
        /\ results.steps.upload # Absent => results.steps.validation # Absent
        /\ handed # NotRun => results.steps.validation # Absent
        /\ Fetched => results.steps.kpi_mappings # Absent

FetchValidateUploadWitness ==
    /\ InRun
    /\ MappingRefreshed
    /\ Upserted
    /\ results.status = "completed"

\* C26: every record a run hands to insert_records is the output of a
\* successful validate and transform, for every configuration.
C26_OnlyValidatedRecordsUploaded ==
    handed # NotRun => handed.validated

\* Supporting fact for C26: with validation enabled the loader receives the
\* valid records only.
ValidatedWhenEnabled ==
    (handed # NotRun /\ request.enable_validation) =>
        /\ handed.validated
        /\ handed.records = results.steps.validation.valid_records
        /\ handed.records <= insights

ValidatedWhenEnabledWitness ==
    /\ handed # NotRun
    /\ request.enable_validation
    /\ handed.records < insights

-----------------------------------------------------------------------------
(* The input of validate_record and transform_for_bigquery (checked under  *)
(* SpecRecord)                                                             *)

Called == vres # NotRun \/ tres # NotRun

C27_SuccessWitness ==
    /\ vres2 # NotRun
    /\ vres.is_valid
    /\ tres # None
    /\ tres # record0

-----------------------------------------------------------------------------
(* The target table during one invocation (checked under Spec) *)

MergeCalls == {j \in 1..Len(log) : log[j].op = "MERGE"}

FailedBeforeMerge ==
    /\ pc \in {"except", "done"}
    /\ error \in {"get_table", "create_table", "load"}

\* C28: an invocation that fails while reading the target schema, creating
\* the staging table or loading a chunk issues no MERGE and leaves the rows
\* of the target as they were; the rows of the target change only through
\* the one MERGE of the invocation.
C28_TargetUntouchedOnEarlyFailure ==
    /\ FailedBeforeMerge => (MergeCalls = {} /\ target = target0)
    /\ (pc # "idle" /\ target # target0)
          => (Cardinality(MergeCalls) = 1 /\ Call("MERGE", TRUE) \in Range(log))

\* the second chunk fails to load on a target that holds rows, none of them
\* a record of the list
C28_Witness ==
    /\ Failed
    /\ error = "load"
    /\ i > 0
    /\ target0 # EmptyTable
    /\ \E j \in 1..Len(records) : target0[records[j]] = 0

-----------------------------------------------------------------------------
(* FacebookClient._get_insights_date_range: the chunk loop.  Dates are     *)
(* counted in days after time_range['since']; the requests of the loop     *)
(* body are left out (their errors are logged and the loop goes on).       *)

MaxDays == 9        \* latest time_range['until']
MaxChunkDays == 4   \* largest chunk_days
MaxChunks == 12     \* chunk_count is not counted beyond this

FetchUnchanged == UNCHANGED nonFetchVars

\* current_start = start_date, chunk_count = 0
get_insights_date_range(until, days) ==
    /\ fpc = "idle"
    /\ fpc' = "while"
    /\ chunk_days' = days
    /\ end_date' = until
    /\ current_start' = 0
    /\ chunk_count' = 0
    /\ FetchUnchanged

\* current_start = current_start + timedelta(days=chunk_days - 1)
next_chunk_start(start, days) == start + (days - 1)

\* "while current_start <= end_date" holds: the chunk is fetched
fetch_chunk ==
    /\ fpc = "while"
    /\ current_start <= end_date
    /\ fpc' = "chunk"
    /\ chunk_count' = Min(chunk_count + 1, MaxChunks)
    /\ UNCHANGED <<chunk_days, end_date, current_start>>
    /\ FetchUnchanged

\* the end of the loop body: current_start is moved and the condition is
\* evaluated again
advance_current_start ==
    /\ fpc = "chunk"
    /\ current_start' = next_chunk_start(current_start, chunk_days)
    /\ fpc' = "while"
    /\ UNCHANGED <<chunk_days, end_date, chunk_count>>
    /\ FetchUnchanged

\* the loop condition fails: "return all_insights"
return_all_insights ==
    /\ fpc = "while"
    /\ current_start > end_date
    /\ fpc' = "returned"
    /\ UNCHANGED <<chunk_days, end_date, current_start, chunk_count>>
    /\ FetchUnchanged

\* the caller has the list; the locals are gone
fetch_done ==
    /\ fpc = "returned"
    /\ fpc' = "idle"
    /\ chunk_days' = 1
    /\ end_date' = 0
    /\ current_start' = 0
    /\ chunk_count' = 0
    /\ FetchUnchanged

InitFetch ==
    /\ LoaderIdle
    /\ ValidatorIdle
    /\ KpiIdle
    /\ PipelineIdle
    /\ ConcurrentIdle
    /\ FetchIdle

NextFetch ==
    \/ \E until \in 0..MaxDays, days \in 1..MaxChunkDays :
          get_insights_date_range(until, days)
    \/ fetch_chunk
    \/ advance_current_start
    \/ return_all_insights
    \/ fetch_done

SpecFetch == InitFetch /\ [][NextFetch]_vars

\* a call that has started keeps running: the interpreter executes the
\* next iteration or the return
SpecFetchLive ==
    /\ SpecFetch
    /\ WF_vars(fetch_chunk)
    /\ WF_vars(advance_current_start)
    /\ WF_vars(return_all_insights)

-----------------------------------------------------------------------------
(* Properties of the chunk loop (checked under SpecFetchLive) *)

\* C29: for every time range with since <= until and every chunk_days >= 1
\* the chunk loop ends: a call that entered the loop returns.
C29_FetchTerminates == (fpc = "while") ~> (fpc = "returned")

\* Supporting facts for C29: with chunk_days >= 2 the loop ends, and it
\* fetches no more chunks than the range has days.
FetchTerminatesForLongerChunks ==
    (fpc = "while" /\ chunk_days >= 2) ~> (fpc = "returned")

ChunkCountBounded ==
    (fpc # "idle" /\ chunk_days >= 2) => chunk_count <= end_date + 1

ChunkCountWitness ==
    /\ fpc = "returned"
    /\ chunk_days = 2
    /\ end_date = MaxDays
    /\ chunk_count = end_date + 1

====
